---- MODULE Spec2Model ----
(***************************************************************************)
(* A model of pm25ml's temporal partition combination and imputation       *)
(* orchestration: the Recombiner (dataset merge engine), the CombinePlanner,*)
(* the RegressionModelPredictor and the SpatialImputationManager.           *)
(* Each component has its own specification (SpecRecombine, ...); the       *)
(* variables of the other components stay at their idle values.             *)
(***************************************************************************)
EXTENDS Integers, Sequences, FiniteSets, TLC

\* ------------------------------------------------------------------ bounds
\* Number of months of the temporal range (TemporalConfig.months).
NumMonths == 2
\* max_workers handed to the Recombiner (8 and 4 in dependency_injection.py);
\* kept below NumMonths so that tasks queue behind the pool's workers.
MaxWorkers == 1

\* Days of data in each month partition read by the regression predictor.
DaysPerMonth == 4

Months == 1..NumMonths

\* ------------------------------------------------------------ data frames
\* A frame is [exists, columns, rows]: rows are functions columns -> values.
\* A null cell (what a full join fills in for the side without a match).
Null == -1

IdColumns == {"grid_id", "date"}

Absent == [exists |-> FALSE, columns |-> {}, rows |-> {}]

Frame(cols, rows) == [exists |-> TRUE, columns |-> cols, rows |-> rows]

\* DataFrame.drop(columns)
Drop(df, cols) ==
    Frame(df.columns \ cols,
          {[c \in df.columns \ cols |-> r[c]] : r \in df.rows})

\* Two rows match on the join keys; a null key matches nothing.
KeysMatch(l, r, on) == \A c \in on : l[c] = r[c] /\ l[c] # Null

\* left.join(right, on=on, how="full", coalesce=True)
JoinFull(left, right, on) ==
    LET cols == left.columns \cup right.columns
        both == {[c \in cols |-> IF c \in right.columns THEN r[c] ELSE l[c]] :
                    <<l, r>> \in {p \in left.rows \X right.rows :
                                      KeysMatch(p[1], p[2], on)}}
        leftOnly == {[c \in cols |-> IF c \in left.columns THEN l[c] ELSE Null] :
                        l \in {x \in left.rows :
                                  \A r \in right.rows : ~KeysMatch(x, r, on)}}
        rightOnly == {[c \in cols |-> IF c \in right.columns THEN r[c] ELSE Null] :
                        r \in {x \in right.rows :
                                  \A l \in left.rows : ~KeysMatch(l, x, on)}}
    IN Frame(cols, both \cup leftOnly \cup rightOnly)

NoError == [kind |-> "none", columns |-> {}, month |-> 0]

\* The fold of Recombiner._combine_all over stage_dfs[i..], combined_df = acc.
\* The mutant keeps the accumulator's shared columns and drops the incoming
\* frame's (the left frame wins).
RECURSIVE CombineFoldLeftWins(_, _, _, _)
CombineFoldLeftWins(acc, stage_dfs, i, overwrite) ==
    IF i > Len(stage_dfs) THEN [ok |-> TRUE, df |-> acc, error |-> NoError]
    ELSE LET df == stage_dfs[i]
             shared_columns == (acc.columns \cap df.columns) \ IdColumns
         IN IF shared_columns # {} /\ ~overwrite
            THEN [ok |-> FALSE, df |-> Absent,
                  error |-> [kind |-> "shared_columns",
                             columns |-> shared_columns, month |-> 0]]
            ELSE LET right == Drop(df, shared_columns)
                     shared_id_columns == acc.columns \cap right.columns \cap IdColumns
                 IN CombineFoldLeftWins(JoinFull(acc, right, shared_id_columns),
                                        stage_dfs, i + 1, overwrite)

\* The mutant never looks at overwrite_columns: it always overwrites.
RECURSIVE CombineFoldAlwaysOverwrite(_, _, _, _)
CombineFoldAlwaysOverwrite(acc, stage_dfs, i, overwrite) ==
    IF i > Len(stage_dfs) THEN [ok |-> TRUE, df |-> acc, error |-> NoError]
    ELSE LET df == stage_dfs[i]
             shared_columns == (acc.columns \cap df.columns) \ IdColumns
             left == Drop(acc, shared_columns)
             shared_id_columns == left.columns \cap df.columns \cap IdColumns
         IN CombineFoldAlwaysOverwrite(JoinFull(left, df, shared_id_columns),
                                       stage_dfs, i + 1, overwrite)

RECURSIVE CombineFold(_, _, _, _)
CombineFold(acc, stage_dfs, i, overwrite) ==
    IF i > Len(stage_dfs) THEN [ok |-> TRUE, df |-> acc, error |-> NoError]
    ELSE LET df == stage_dfs[i]
             shared_columns == (acc.columns \cap df.columns) \ IdColumns
         IN IF shared_columns # {} /\ ~overwrite
            THEN [ok |-> FALSE, df |-> Absent,
                  error |-> [kind |-> "shared_columns",
                             columns |-> shared_columns, month |-> 0]]
            ELSE LET left == IF shared_columns # {} THEN Drop(acc, shared_columns)
                                                     ELSE acc
                     shared_id_columns == left.columns \cap df.columns \cap IdColumns
                 IN CombineFold(JoinFull(left, df, shared_id_columns),
                                stage_dfs, i + 1, overwrite)

\* Recombiner._combine_all
CombineAll(stage_dfs, overwrite) == CombineFold(stage_dfs[1], stage_dfs, 2, overwrite)

\* --------------------------------------------------- storage (Recombiner)
\* The input artifacts handed to recombine(stages), in order, and the
\* recombiner's output_data_artifact.
Stages == <<"stage1", "stage2", "stage3">>
OutStage == "recombined"

\* temporal_config.months, in order; the variant holds the first month only.
MonthsSeqFirstOnly == [i \in 1..1 |-> i]

MonthsSeq == [i \in 1..NumMonths |-> i]

Refs == ({Stages[i] : i \in 1..Len(Stages)} \cup {OutStage}) \X Months

\* The (grid_id, date) keys of a month's partitions.
BaseKeys(m) == {<<1, m * 10 + 1>>, <<2, m * 10 + 1>>}
ExtraKey(m) == <<1, m * 10 + 2>>
StaticKeys == {<<1, 0>>, <<2, 0>>}

\* The value stage i holds in a value column of the row with key k.
Cell(i, k) == i * 1000 + k[2] * 10 + k[1]

StageRows(i, cols, keys) ==
    {[c \in cols |-> IF c = "grid_id" THEN k[1]
                     ELSE IF c = "date" THEN k[2]
                     ELSE Cell(i, k)] : k \in keys}

\* What the upstream stages left for a month:
\*   aligned: three stages with distinct value columns, stage3 static (no date);
\*   extra:   as aligned, stage2 holding one row more than stage1;
\*   shared:  stage1 and stage2 share "sh", stage1 and stage3 share "v1",
\*            stage3 lacking one of the rows.
InputKinds == {"aligned", "extra", "shared"}

InputFrame(kind, i, m) ==
    IF kind = "shared"
    THEN CASE i = 1 -> Frame(IdColumns \cup {"v1", "sh"},
                             StageRows(1, IdColumns \cup {"v1", "sh"}, BaseKeys(m)))
           [] i = 2 -> Frame(IdColumns \cup {"v2", "sh"},
                             StageRows(2, IdColumns \cup {"v2", "sh"}, BaseKeys(m)))
           [] OTHER -> Frame(IdColumns \cup {"v1", "v3"},
                             StageRows(3, IdColumns \cup {"v1", "v3"},
                                       BaseKeys(m) \ {<<2, m * 10 + 1>>}))
    ELSE CASE i = 1 -> Frame(IdColumns \cup {"v1"},
                             StageRows(1, IdColumns \cup {"v1"}, BaseKeys(m)))
           [] i = 2 -> Frame(IdColumns \cup {"v2"},
                             StageRows(2, IdColumns \cup {"v2"},
                                 IF kind = "extra" THEN BaseKeys(m) \cup {ExtraKey(m)}
                                                   ELSE BaseKeys(m)))
           [] OTHER -> Frame({"grid_id", "v3"},
                             StageRows(3, {"grid_id", "v3"}, StaticKeys))

\* What an earlier run left as the month's output partition: nothing, the
\* merge of the inputs (written with overwrite_columns=True), or a partition
\* written before stage2 and stage3 were added.
OutputKinds == {"absent", "prior", "first_only"}

InitialOutput(okind, ikind, m) ==
    CASE okind = "absent" -> Absent
      [] okind = "prior" ->
            CombineAll([i \in 1..Len(Stages) |-> InputFrame(ikind, i, m)], TRUE).df
      [] OTHER -> InputFrame(ikind, 1, m)

\* CombinedStorage.does_dataset_exist
DoesDatasetExist(st, ref) == st[ref].exists

\* CombinedStorage.read_dataframe
ReadDataframe(st, ref) == st[ref]

\* CombinedStorage.read_dataframe_metadata: row count and schema names only.
ReadDataframeMetadata(st, ref) ==
    [num_rows |-> Cardinality(st[ref].rows), names |-> st[ref].columns]

\* CombinedStorage.write_to_destination
WriteToDestination(st, df, ref) == [st EXCEPT ![ref] = df]

\* ------------------------------------------------------------- Recombiner
VARIABLES
    storage,            \* combined_storage: Refs -> frame or Absent
    force_recombine,    \* Recombiner.force_recombine
    overwrite_columns,  \* the overwrite_columns argument of recombine
    rcall,              \* 0 before the first call of recombine, then 1, 2
    rphase,             \* idle | filter | process | validate | returned | raised
    submitted,          \* the months handed to executor.map in this phase
    task,               \* month -> none | pending | running | done | failed | cancelled
    task_error,         \* month -> the exception its task raised
    collector,          \* the calling thread: draining | cancelling
    drain,              \* index in submitted of the next result to collect
    cancel_at,          \* index in submitted of the next future to cancel
    filtered_months,    \* the result of _filter_months_to_update
    needs,              \* month -> unchecked | yes | no (this call's skip check)
    writes,             \* months written by write_to_destination in this call
    full_reads,         \* partitions read in full by read_dataframe in this call
    rerror,             \* the exception recombine raised
    storage0,           \* the storage when this call started
    first               \* what the first call did, once a second one started

rvars == <<storage, force_recombine, overwrite_columns, rcall, rphase, submitted,
           task, task_error, collector, drain, cancel_at, filtered_months,
           needs, writes, full_reads, rerror, storage0, first>>

\* Recombiner._read_dfs_to_merge
ReadDfsToMerge(st, month) ==
    [i \in 1..Len(Stages) |-> ReadDataframe(st, <<Stages[i], month>>)]

\* Recombiner._validate_combined: the ValueError it raises, or NoError.
\* The mutant checks the missing columns and never the row count.
ValidateCombinedNoRows(st, month) ==
    LET expected_columns ==
            UNION {ReadDataframeMetadata(st, <<Stages[i], month>>).names :
                       i \in 1..Len(Stages)}
        combined_metadata == ReadDataframeMetadata(st, <<OutStage, month>>)
        missing_columns == expected_columns \ combined_metadata.names
    IN IF missing_columns # {}
       THEN [kind |-> "missing_columns", columns |-> missing_columns, month |-> month]
       ELSE NoError

\* A variant that looks for missing columns before it compares row counts.
ValidateCombinedColumnsFirst(st, month) ==
    LET expected_columns ==
            UNION {ReadDataframeMetadata(st, <<Stages[i], month>>).names :
                       i \in 1..Len(Stages)}
        expected_rows == ReadDataframeMetadata(st, <<Stages[1], month>>).num_rows
        combined_metadata == ReadDataframeMetadata(st, <<OutStage, month>>)
        missing_columns == expected_columns \ combined_metadata.names
    IN IF missing_columns # {}
       THEN [kind |-> "missing_columns", columns |-> missing_columns, month |-> month]
       ELSE IF combined_metadata.num_rows # expected_rows
       THEN [kind |-> "row_count", columns |-> {}, month |-> month]
       ELSE NoError

ValidateCombined(st, month) ==
    LET expected_columns ==
            UNION {ReadDataframeMetadata(st, <<Stages[i], month>>).names :
                       i \in 1..Len(Stages)}
        expected_rows == ReadDataframeMetadata(st, <<Stages[1], month>>).num_rows
        combined_metadata == ReadDataframeMetadata(st, <<OutStage, month>>)
        missing_columns == expected_columns \ combined_metadata.names
    IN IF combined_metadata.num_rows # expected_rows
       THEN [kind |-> "row_count", columns |-> {}, month |-> month]
       ELSE IF missing_columns # {}
       THEN [kind |-> "missing_columns", columns |-> missing_columns, month |-> month]
       ELSE NoError

\* Recombiner._needs_recombining; the mutant re-runs every existing month.
NeedsRecombiningAlways(st, month) == TRUE

\* A variant that lets a failed validation of an existing output pass for "no".
NeedsRecombiningOnlyMissing(st, month) == ~DoesDatasetExist(st, <<OutStage, month>>)

NeedsRecombining(st, month) ==
    IF ~DoesDatasetExist(st, <<OutStage, month>>) THEN TRUE
    ELSE ValidateCombined(st, month) # NoError

\* The months _filter_months_to_update returns from the skip check's results;
\* the mutant returns every month.
FilterMonthsToUpdateAll(nd) == MonthsSeq

\* A variant that selects no month.
FilterMonthsToUpdateNone(nd) == <<>>

FilterMonthsToUpdate(nd) == SelectSeq(MonthsSeq, LAMBDA m : nd[m] = "yes")

\* The workers of the pool of a phase: max_workers for the processing pool,
\* the executor's default (at least five, so never fewer than the months of
\* this model) for the skip check and the validation.
PoolSize(phase) == IF phase = "process" THEN MaxWorkers ELSE NumMonths

\* The months whose task a worker is executing; the variant sees none.
RunningNone == {}

Running == {m \in Months : task[m] = "running"}

SubmitAll(months) ==
    /\ submitted' = months
    /\ task' = [m \in Months |->
                   IF \E i \in 1..Len(months) : months[i] = m THEN "pending"
                                                            ELSE "none"]
    /\ task_error' = [m \in Months |-> NoError]
    /\ collector' = "draining"
    /\ drain' = 1
    /\ cancel_at' = 0

NoRun == [outcome |-> "none", writes |-> {},
          needs |-> [m \in Months |-> "unchecked"],
          storage0 |-> [ref \in Refs |-> Absent]]

RInit ==
    /\ \E ik \in [Months -> InputKinds], ok \in [Months -> OutputKinds] :
          storage = [ref \in Refs |->
                        IF ref[1] = OutStage
                        THEN InitialOutput(ok[ref[2]], ik[ref[2]], ref[2])
                        ELSE InputFrame(ik[ref[2]],
                                        CHOOSE i \in 1..Len(Stages) : Stages[i] = ref[1],
                                        ref[2])]
    /\ force_recombine \in BOOLEAN
    /\ overwrite_columns \in BOOLEAN
    /\ rcall = 0
    /\ rphase = "idle"
    /\ submitted = <<>>
    /\ task = [m \in Months |-> "none"]
    /\ task_error = [m \in Months |-> NoError]
    /\ collector = "draining"
    /\ drain = 1
    /\ cancel_at = 0
    /\ filtered_months = <<>>
    /\ needs = [m \in Months |-> "unchecked"]
    /\ writes = {}
    /\ full_reads = {}
    /\ rerror = NoError
    /\ storage0 = storage
    /\ first = NoRun

\* recombine(stages, overwrite_columns=...) is called: the first call, or a
\* second one after the first returned or raised.  With force_recombine
\* _filter_months_to_update returns every month without a skip check.
Recombine ==
    /\ \/ rphase = "idle"
       \/ rphase \in {"returned", "raised"} /\ rcall = 1
    /\ rcall' = rcall + 1
    /\ first' = IF rphase = "idle" THEN first
                ELSE [outcome |-> rphase, writes |-> writes, needs |-> needs,
                      storage0 |-> storage0]
    /\ storage0' = storage
    /\ writes' = {}
    /\ full_reads' = {}
    /\ needs' = [m \in Months |-> "unchecked"]
    /\ rerror' = NoError
    /\ filtered_months' = IF force_recombine THEN MonthsSeq ELSE <<>>
    /\ rphase' = IF force_recombine THEN "process" ELSE "filter"
    /\ SubmitAll(MonthsSeq)
    /\ UNCHANGED <<storage, force_recombine, overwrite_columns>>

\* A worker takes the next work item of the queue (first in, first out).
TaskStart(m) ==
    /\ rphase \in {"filter", "process", "validate"}
    /\ task[m] = "pending"
    /\ \A k \in Months : k < m => task[k] # "pending"
    /\ Cardinality(Running) < PoolSize(rphase)
    /\ task' = [task EXCEPT ![m] = "running"]
    /\ UNCHANGED <<storage, force_recombine, overwrite_columns, rcall, rphase,
                   submitted, task_error, collector, drain, cancel_at,
                   filtered_months, needs, writes, full_reads, rerror, storage0, first>>

\* The skip check's task of a month: (month, _needs_recombining(month, stages)).
NeedsRecombiningTask(m) ==
    /\ rphase = "filter"
    /\ task[m] = "running"
    /\ needs' = [needs EXCEPT ![m] = IF NeedsRecombining(storage, m) THEN "yes"
                                                                      ELSE "no"]
    /\ task' = [task EXCEPT ![m] = "done"]
    /\ UNCHANGED <<storage, force_recombine, overwrite_columns, rcall, rphase,
                   submitted, task_error, collector, drain, cancel_at,
                   filtered_months, writes, full_reads, rerror, storage0, first>>

\* Leaving the skip check's pool waits for every task; the months that need
\* recombining are then handed to the processing pool.
FilterCollect ==
    /\ rphase = "filter"
    /\ \A m \in Months : task[m] = "done"
    /\ filtered_months' = FilterMonthsToUpdate(needs)
    /\ rphase' = "process"
    /\ SubmitAll(filtered_months')
    /\ UNCHANGED <<storage, force_recombine, overwrite_columns, rcall, needs,
                   writes, full_reads, rerror, storage0, first>>

\* process_month: read the inputs, combine them, write the result.
ProcessMonth(m) ==
    /\ rphase = "process"
    /\ task[m] = "running"
    /\ full_reads' = full_reads \cup {<<Stages[i], m>> : i \in 1..Len(Stages)}
    /\ LET combined == CombineAll(ReadDfsToMerge(storage, m), overwrite_columns)
       IN IF combined.ok
          THEN /\ storage' = WriteToDestination(storage, combined.df, <<OutStage, m>>)
               /\ writes' = writes \cup {m}
               /\ task' = [task EXCEPT ![m] = "done"]
               /\ UNCHANGED task_error
          ELSE /\ task' = [task EXCEPT ![m] = "failed"]
               /\ task_error' = [task_error EXCEPT
                                    ![m] = [combined.error EXCEPT !.month = m]]
               /\ UNCHANGED <<storage, writes>>
    /\ UNCHANGED <<force_recombine, overwrite_columns, rcall, rphase, submitted,
                   collector, drain, cancel_at, filtered_months, needs, rerror,
                   storage0, first>>

\* The final validation's task of a month: _validate_combined(month, stages).
ValidateTask(m) ==
    /\ rphase = "validate"
    /\ task[m] = "running"
    /\ LET found == ValidateCombined(storage, m)
       IN /\ task' = [task EXCEPT ![m] = IF found = NoError THEN "done" ELSE "failed"]
          /\ task_error' = [task_error EXCEPT ![m] = found]
    /\ UNCHANGED <<storage, force_recombine, overwrite_columns, rcall, rphase,
                   submitted, collector, drain, cancel_at, filtered_months,
                   needs, writes, full_reads, rerror, storage0, first>>

\* deque(result): the calling thread collects the results in submission order.
DrainNext ==
    /\ rphase \in {"process", "validate"}
    /\ collector = "draining"
    /\ drain <= Len(submitted)
    /\ task[submitted[drain]] = "done"
    /\ drain' = drain + 1
    /\ UNCHANGED <<storage, force_recombine, overwrite_columns, rcall, rphase,
                   submitted, task, task_error, collector, cancel_at,
                   filtered_months, needs, writes, full_reads, rerror, storage0, first>>

\* The next result is an exception: it leaves the result iterator, whose
\* finally clause cancels the futures not yet collected, last one first.
DrainRaise ==
    /\ rphase \in {"process", "validate"}
    /\ collector = "draining"
    /\ drain <= Len(submitted)
    /\ task[submitted[drain]] = "failed"
    /\ rerror' = task_error[submitted[drain]]
    /\ collector' = "cancelling"
    /\ cancel_at' = Len(submitted)
    /\ UNCHANGED <<storage, force_recombine, overwrite_columns, rcall, rphase,
                   submitted, task, task_error, drain, filtered_months, needs,
                   writes, full_reads, storage0, first>>

\* future.cancel(): a future still in the queue is cancelled, a running or
\* finished one is left alone.
CancelNext ==
    /\ collector = "cancelling"
    /\ cancel_at > drain
    /\ task' = [task EXCEPT ![submitted[cancel_at]] =
                   IF task[submitted[cancel_at]] = "pending" THEN "cancelled"
                   ELSE task[submitted[cancel_at]]]
    /\ cancel_at' = cancel_at - 1
    /\ UNCHANGED <<storage, force_recombine, overwrite_columns, rcall, rphase,
                   submitted, task_error, collector, drain, filtered_months,
                   needs, writes, full_reads, rerror, storage0, first>>

\* Leaving the pool's with block waits for the running tasks; then the
\* exception reaches the caller of recombine.
RaiseToCaller ==
    /\ rphase \in {"process", "validate"}
    /\ collector = "cancelling"
    /\ cancel_at <= drain
    /\ Running = {}
    /\ rphase' = "raised"
    /\ UNCHANGED <<storage, force_recombine, overwrite_columns, rcall, submitted,
                   task, task_error, collector, drain, cancel_at,
                   filtered_months, needs, writes, full_reads, rerror, storage0, first>>

\* Every result of the processing pool was collected: _validate_all starts.
ProcessDone ==
    /\ rphase = "process"
    /\ collector = "draining"
    /\ drain > Len(submitted)
    /\ rphase' = "validate"
    /\ SubmitAll(filtered_months)
    /\ UNCHANGED <<storage, force_recombine, overwrite_columns, rcall,
                   filtered_months, needs, writes, full_reads, rerror, storage0, first>>

\* Every validation was collected: recombine returns.
ValidateDone ==
    /\ rphase = "validate"
    /\ collector = "draining"
    /\ drain > Len(submitted)
    /\ rphase' = "returned"
    /\ UNCHANGED <<storage, force_recombine, overwrite_columns, rcall, submitted,
                   task, task_error, collector, drain, cancel_at,
                   filtered_months, needs, writes, full_reads, rerror, storage0, first>>

\* ---------------------------------------------------------- CombinePlanner
\* Strings are sequences of character codes, compared as Python compares
\* str: code point by code point, a proper prefix first.
None == <<>>

Digit(n) == 48 + n

StrLess(a, b) ==
    \/ \E i \in 1..Len(a) :
          /\ i <= Len(b)
          /\ \A j \in 1..(i - 1) : a[j] = b[j]
          /\ a[i] < b[i]
    \/ Len(a) < Len(b) /\ \A j \in 1..Len(a) : a[j] = b[j]

\* The calendar month with index i of the temporal range, which starts in
\* December 2022; index 0 is the month before the range.
CalYear(i) == 2022 + ((10 + i) \div 12)
CalMonth(i) == ((10 + i) % 12) + 1

\* str(month.year)
YearStr(y) ==
    <<Digit(y \div 1000), Digit((y \div 100) % 10), Digit((y \div 10) % 10),
      Digit(y % 10)>>

\* _month_format: month.format("YYYY-MM")
MonthFormat(i) ==
    YearStr(CalYear(i)) \o <<45>> \o
        <<Digit(CalMonth(i) \div 10), Digit(CalMonth(i) % 10)>>

\* "static"
Static == <<115, 116, 97, 116, 105, 99>>

\* The partitions the collectors may report: one static partition, yearly
\* partitions for 2021..2023, monthly partitions from the month before the
\* range to its last month.  ord is the partition's place in time (not part
\* of the program's data; the claims use it).
StaticMember ==
    [dataset |-> "static_dataset",
     meta |-> [type |-> Static, month |-> None, year |-> None], ord |-> 0,
     id_columns |-> {"grid_id"}, value_columns |-> {"s1"}]

YearlyMember(y) ==
    [dataset |-> "yearly_dataset",
     meta |-> [type |-> None, month |-> None, year |-> YearStr(y)], ord |-> y,
     id_columns |-> {"grid_id"}, value_columns |-> {"y1"}]

MonthlyMember(i) ==
    [dataset |-> "monthly_dataset",
     meta |-> [type |-> None, month |-> MonthFormat(i), year |-> None],
     ord |-> CalYear(i) * 12 + CalMonth(i),
     id_columns |-> {"grid_id", "date"}, value_columns |-> {"m1"}]

Candidates ==
    <<StaticMember>> \o [k \in 1..3 |-> YearlyMember(2020 + k)]
        \o [k \in 1..(NumMonths + 1) |-> MonthlyMember(k - 1)]

\* What the collector reported for a candidate: nothing, a COMPLETE
\* partition, or an EMPTY one with either missing-data heuristic.
MemberStates == {"absent", "complete", "empty_strict", "empty_copy"}

UploadResult(member, state) ==
    [dataset |-> member.dataset, meta |-> member.meta, ord |-> member.ord,
     id_columns |-> member.id_columns, value_columns |-> member.value_columns,
     data_available |-> (state = "complete"),
     missing_data_heuristic |-> IF state = "empty_copy"
                                THEN "COPY_LATEST_AVAILABLE_BEFORE" ELSE "STRICT"]

RECURSIVE ResultsFrom(_, _)
ResultsFrom(states, k) ==
    IF k > Len(Candidates) THEN <<>>
    ELSE (IF states[k] = "absent" THEN <<>>
          ELSE <<UploadResult(Candidates[k], states[k])>>)
         \o ResultsFrom(states, k + 1)

\* How the collectors partition their datasets.  "plain": as Candidates.
\* "monthly_with_year": the monthly partitions carry a year key next to
\* their month key.  "month_in_yearly", "month_in_static": a COMPLETE
\* partition keyed by month only is reported under the yearly (the static)
\* dataset, for a month after the range.  The mixed shapes are explored
\* with COMPLETE partitions only.
MixedShapes == {"month_in_yearly", "month_in_static"}

Shapes == {"plain", "monthly_with_year"} \cup MixedShapes

WithYearKey(r) ==
    IF r.dataset = "monthly_dataset"
    THEN [r EXCEPT !.meta = [r.meta EXCEPT !["year"] = YearStr((r.ord - 1) \div 12)]]
    ELSE r

MonthKeyed(dataset, ord) ==
    UploadResult(
        [dataset |-> dataset,
         meta |-> [type |-> None, month |-> MonthFormat(NumMonths + 1), year |-> None],
         ord |-> ord, id_columns |-> {"grid_id"}, value_columns |-> {"x1"}],
        "complete")

Shaped(rs, shape) ==
    CASE shape = "monthly_with_year" -> [i \in 1..Len(rs) |-> WithYearKey(rs[i])]
      [] shape = "month_in_yearly" -> rs \o <<MonthKeyed("yearly_dataset", 3000)>>
      [] shape = "month_in_static" -> rs \o <<MonthKeyed("static_dataset", 1)>>
      [] OTHER -> rs

\* result.pipeline_config.hive_path
HivePath(r) == [dataset |-> r.dataset, meta |-> r.meta]

NoPath == [dataset |-> "", meta |-> [type |-> None, month |-> None, year |-> None]]

\* _DatasetResultGroup.dataset_key ("error": the ValueError it raises); the
\* variant looks for a year key before a month key.
DatasetKeyYearFirst(results) ==
    IF \A i \in 1..Len(results) : results[i].meta["type"] = Static THEN "type"
    ELSE IF \A i \in 1..Len(results) : results[i].meta["year"] # None THEN "year"
    ELSE IF \A i \in 1..Len(results) : results[i].meta["month"] # None THEN "month"
    ELSE "error"

DatasetKey(results) ==
    IF \A i \in 1..Len(results) : results[i].meta["type"] = Static THEN "type"
    ELSE IF \A i \in 1..Len(results) : results[i].meta["month"] # None THEN "month"
    ELSE IF \A i \in 1..Len(results) : results[i].meta["year"] # None THEN "year"
    ELSE "error"

\* _DatasetResultGroup.extract_value
ExtractValue(key, month) ==
    CASE key = "type" -> Static
      [] key = "month" -> MonthFormat(month)
      [] OTHER -> YearStr(CalYear(month))

\* max(earlier, key=...): the first of the greatest, in iteration order;
\* the mutant takes the first of the least.
PickEarliest(results, earlier, key) ==
    CHOOSE i \in earlier :
        \A j \in earlier :
            \/ StrLess(results[i].meta[key], results[j].meta[key])
            \/ (results[j].meta[key] = results[i].meta[key] /\ i <= j)

PickLatest(results, earlier, key) ==
    CHOOSE i \in earlier :
        \A j \in earlier :
            \/ StrLess(results[j].meta[key], results[i].meta[key])
            \/ (results[j].meta[key] = results[i].meta[key] /\ i <= j)

\* missing_data_heuristic == MissingDataHeuristic.COPY_LATEST_AVAILABLE_BEFORE;
\* the variant falls back whatever the heuristic.
IsCopyLatestAvailableBeforeAlways(result) == TRUE

IsCopyLatestAvailableBefore(result) ==
    result.missing_data_heuristic = "COPY_LATEST_AVAILABLE_BEFORE"

\* next(...) over the members whose key has the value finds none: it raises
\* StopIteration.  The variant falls back to the latest COMPLETE member
\* before the value.
NoExactMatchFallsBack(results, key, value) ==
    LET earlier == {i \in 1..Len(results) :
                       /\ results[i].data_available
                       /\ StrLess(results[i].meta[key], value)}
    IN IF earlier = {}
       THEN [ok |-> FALSE, path |-> NoPath, error |-> "max_of_empty"]
       ELSE [ok |-> TRUE,
             path |-> HivePath(results[PickLatest(results, earlier, key)]),
             error |-> "none"]

NoExactMatch(results, key, value) ==
    [ok |-> FALSE, path |-> NoPath, error |-> "StopIteration"]

\* _DatasetResultGroup.get_best_matching: the path, or the exception raised.
GetBestMatching(results, month) ==
    LET key == DatasetKey(results)
    IN IF key = "error" THEN [ok |-> FALSE, path |-> NoPath, error |-> "no_dataset_key"]
       ELSE
       LET value == ExtractValue(key, month)
           matching == {i \in 1..Len(results) : results[i].meta[key] = value}
       IN IF matching = {}
          THEN NoExactMatch(results, key, value)
          ELSE
          LET actual_match ==
                  results[CHOOSE i \in matching : \A j \in matching : i <= j]
          IN IF actual_match.data_available
             THEN [ok |-> TRUE, path |-> HivePath(actual_match), error |-> "none"]
             ELSE IF IsCopyLatestAvailableBefore(actual_match)
             THEN LET earlier == {i \in 1..Len(results) :
                                     /\ results[i].data_available
                                     /\ StrLess(results[i].meta[key], value)}
                  IN IF earlier = {}
                     THEN [ok |-> FALSE, path |-> NoPath, error |-> "max_of_empty"]
                     ELSE [ok |-> TRUE,
                           path |-> HivePath(results[PickLatest(results, earlier, key)]),
                           error |-> "none"]
             ELSE [ok |-> FALSE, path |-> NoPath, error |-> "no_matching_hive_path"]

\* _DatasetResultGroup.group_by_dataset: one group per dataset name, each the
\* results of that dataset in the order given.  The variant forms no group
\* for the static dataset.
DatasetNamesWithoutStatic(results) ==
    {results[i].dataset : i \in 1..Len(results)} \ {"static_dataset"}

DatasetNames(results) == {results[i].dataset : i \in 1..Len(results)}

GroupOf(results, dataset) == SelectSeq(results, LAMBDA r : r.dataset = dataset)

\* CombinePlanner.plan (expected columns): [dataset, column], dataset "" for
\* an identifier column.  The variant takes the columns of the first result
\* only.
ExpectedColumnsOfFirst(results) ==
    IF results = <<>> THEN {}
    ELSE {[dataset |-> "", column |-> c] : c \in results[1].id_columns}
         \cup {[dataset |-> results[1].dataset, column |-> c] :
                  c \in results[1].value_columns}

ExpectedColumns(results) ==
    {[dataset |-> "", column |-> c] :
        c \in UNION {results[i].id_columns : i \in 1..Len(results)}}
    \cup UNION {{[dataset |-> results[i].dataset, column |-> c] :
                    c \in results[i].value_columns} : i \in 1..Len(results)}

\* CombinePlanner._list_paths_to_merge for one month: the chosen path of
\* every group.
BestMatches(results, month) ==
    [d \in DatasetNames(results) |-> GetBestMatching(GroupOf(results, d), month)]

\* CombinePlanner.plan: whether every group of every month has a path, and
\* the CombinePlans returned when so.
PlanSucceeds(results) ==
    \A m \in Months : \A d \in DatasetNames(results) :
        BestMatches(results, m)[d].ok

Plan(results) ==
    [m \in Months |->
        [paths |-> {BestMatches(results, m)[d].path : d \in DatasetNames(results)},
         expected_columns |-> ExpectedColumns(results)]]

VARIABLES
    results,        \* the argument of plan: a sequence of UploadResult
    plan_state,     \* idle | planned | failed
    plans,          \* month -> [paths, expected_columns], once planned
    plan_error      \* the exception plan raised

pvars == <<results, plan_state, plans, plan_error>>

NoPlans == [m \in Months |-> [paths |-> {}, expected_columns |-> {}]]

PInit ==
    /\ \E states \in [1..Len(Candidates) -> MemberStates], shape \in Shapes :
          /\ shape \in MixedShapes =>
                 \A k \in 1..Len(Candidates) : states[k] \in {"absent", "complete"}
          /\ results = Shaped(ResultsFrom(states, 1), shape)
    /\ plan_state = "idle"
    /\ plans = NoPlans
    /\ plan_error = "none"

\* plan(results) returns one CombinePlan per month.
PlanReturns ==
    /\ plan_state = "idle"
    /\ PlanSucceeds(results)
    /\ plans' = Plan(results)
    /\ plan_state' = "planned"
    /\ UNCHANGED <<results, plan_error>>

\* plan(results) raises: the months are planned in order and the groups of a
\* month in the iteration order of a set of names, so the exception is that
\* of any failing group of the first failing month.
PlanRaises ==
    /\ plan_state = "idle"
    /\ \E m \in Months :
          /\ \A k \in Months : k < m =>
                 \A d \in DatasetNames(results) : BestMatches(results, k)[d].ok
          /\ \E d \in DatasetNames(results) :
                /\ ~BestMatches(results, m)[d].ok
                /\ plan_error' = BestMatches(results, m)[d].error
    /\ plan_state' = "failed"
    /\ UNCHANGED <<results, plans>>

PIdle ==
    /\ results = <<>>
    /\ plan_state = "idle"
    /\ plans = NoPlans
    /\ plan_error = "none"

RIdle ==
    /\ storage = [ref \in Refs |-> Absent]
    /\ force_recombine = FALSE
    /\ overwrite_columns = FALSE
    /\ rcall = 0
    /\ rphase = "idle"
    /\ submitted = <<>>
    /\ task = [m \in Months |-> "none"]
    /\ task_error = [m \in Months |-> NoError]
    /\ collector = "draining"
    /\ drain = 1
    /\ cancel_at = 0
    /\ filtered_months = <<>>
    /\ needs = [m \in Months |-> "unchecked"]
    /\ writes = {}
    /\ full_reads = {}
    /\ rerror = NoError
    /\ storage0 = storage
    /\ first = NoRun

\* ------------------------------------------------ RegressionModelPredictor
\* R2 scores are integers (hundredths); a mean is the fraction <<sum, count>>.
RECURSIVE SumSeq(_)
SumSeq(s) == IF s = <<>> THEN 0 ELSE Head(s) + SumSeq(Tail(s))

\* self.model.cv_results["test_r2"].mean()
AverageCvScore(scores) == <<SumSeq(scores), Len(scores)>>

FracLess(a, b) == a[1] * b[2] < b[1] * a[2]

\* The mutant raises on the bounds themselves.
CheckModelQualityExclusive(average_cv_score, min_score, max_score) ==
    IF ~FracLess(<<min_score, 1>>, average_cv_score) THEN "too low"
    ELSE IF ~FracLess(average_cv_score, <<max_score, 1>>) THEN "unusually high"
    ELSE "none"

\* _check_model_quality: the ValueError it raises, by the words of its
\* message, or "none".
CheckModelQuality(average_cv_score, min_score, max_score) ==
    IF FracLess(average_cv_score, <<min_score, 1>>) THEN "too low"
    ELSE IF FracLess(<<max_score, 1>>, average_cv_score) THEN "unusually high"
    ELSE "none"

\* rolling_mean(window_size=7, min_samples=1)
RollingWindow == 7
MinSamples == 1

GridIds == {1, 2}

\* The date of day k of month m, as a day number.
DateOf(m, k) == (m - 1) * DaysPerMonth + k

\* An input partition: every cell observed, every other cell missing, or
\* cell 1 never observed and cell 2 present on its first two days only.
MonthKinds == {"observed", "gaps", "sparse"}

InputRow(kind, g, date) ==
    [grid_id |-> g, date |-> date,
     target_col |-> IF kind = "observed" \/ (kind = "gaps" /\ (g + date) % 2 = 1)
                    THEN 1 + ((2 * g + 3 * date) % 5) ELSE Null,
     feature1 |-> (3 * g + date) % 4]

InputPartition(kind, m) ==
    SelectSeq(
        [p \in 1..(DaysPerMonth * 2) |->
            InputRow(kind, ((p - 1) % 2) + 1, DateOf(m, ((p - 1) \div 2) + 1))],
        LAMBDA r : kind # "sparse" \/ r.grid_id = 1 \/ r.date <= DateOf(m, 2))

\* predictor.predict: the fitted model, a function of the predictor columns.
ModelPredict(feature1) == 10 + 2 * feature1

\* DataFrame.sort([k1, k2]); the rows sorted here never share both keys.
SortRows(rows, k1, k2) ==
    LET Before(i, j) ==
            \/ rows[i][k1] < rows[j][k1]
            \/ rows[i][k1] = rows[j][k1] /\ rows[i][k2] < rows[j][k2]
            \/ rows[i][k1] = rows[j][k1] /\ rows[i][k2] = rows[j][k2] /\ i < j
        Rank(i) == 1 + Cardinality({j \in 1..Len(rows) : Before(j, i)})
    IN [p \in 1..Len(rows) |-> rows[CHOOSE i \in 1..Len(rows) : Rank(i) = p]]

\* data_for_month.with_columns(pl.Series(predicted_col_name, predicted_data))
WithPredictedResults(data_for_month) ==
    [i \in 1..Len(data_for_month) |->
        LET r == data_for_month[i]
        IN [grid_id |-> r.grid_id, date |-> r.date, target_col |-> r.target_col,
            feature1 |-> r.feature1,
            target_col__predicted |-> ModelPredict(r.feature1)]]

\* imputed flag, imputed value, score and the share imputed over each date
WithAggregates(rows, average_cv_score) ==
    LET Flag(r) == IF r.target_col = Null THEN 1 ELSE 0
    IN [i \in 1..Len(rows) |->
        LET r == rows[i]
            same_date == {j \in 1..Len(rows) : rows[j].date = r.date}
        IN [grid_id |-> r.grid_id, date |-> r.date, target_col |-> r.target_col,
            feature1 |-> r.feature1,
            target_col__predicted |-> r.target_col__predicted,
            target_col__imputed_flag |-> Flag(r),
            target_col__imputed |->
                IF Flag(r) = 1 THEN r.target_col__predicted ELSE r.target_col,
            target_col__score |->
                IF Flag(r) = 1
                THEN <<r.target_col__predicted * average_cv_score[1],
                       average_cv_score[2]>>
                ELSE <<r.target_col, 1>>,
            target_col__share_imputed_across_all_grids |->
                <<Cardinality({j \in same_date : Flag(rows[j]) = 1}),
                  Cardinality(same_date)>>]]

\* .with_columns(_which_df=...), after dropping the rolling column if present
Tagged(rows, which) ==
    [i \in 1..Len(rows) |->
        LET r == rows[i]
        IN [grid_id |-> r.grid_id, date |-> r.date, target_col |-> r.target_col,
            feature1 |-> r.feature1,
            target_col__predicted |-> r.target_col__predicted,
            target_col__imputed_flag |-> r.target_col__imputed_flag,
            target_col__imputed |-> r.target_col__imputed,
            target_col__score |-> r.target_col__score,
            target_col__share_imputed_across_all_grids |->
                r.target_col__share_imputed_across_all_grids,
            which_df |-> which]]

NoPrevious == [is_none |-> TRUE, rows |-> <<>>]

\* The mutant forgets the previous month's rows.
BothDfCurrentOnly(with_aggregates, previous_result) ==
    Tagged(with_aggregates, "current")

\* both_df: the current rows, then the previous result's rows if there is one
BothDf(with_aggregates, previous_result) ==
    IF previous_result.is_none
    THEN Tagged(with_aggregates, "current")
    ELSE Tagged(with_aggregates, "current") \o Tagged(previous_result.rows, "previous")

RECURSIVE SumImputedAt(_, _)
SumImputedAt(df, idx) ==
    IF idx = {} THEN 0
    ELSE LET i == CHOOSE i \in idx : TRUE
         IN df[i].target_col__imputed + SumImputedAt(df, idx \ {i})

\* imputed_col.rolling_mean(window_size=7, min_samples=1).over("grid_id") at
\* row i: the mean over the non-null values among the last window_size rows
\* of the row's grid cell, in frame order, ending at row i; <<0, 0>> is null.
RollingMean(df, i) ==
    LET group == {j \in 1..i : df[j].grid_id = df[i].grid_id}
        window == {j \in group :
                      Cardinality({k \in group : k > j}) < RollingWindow}
        valid == {j \in window : df[j].target_col__imputed # Null}
    IN IF Cardinality(valid) < MinSamples THEN <<0, 0>>
       ELSE <<SumImputedAt(df, valid), Cardinality(valid)>>

\* _add_imputed_details_to_df
AddImputedDetailsToDf(average_cv_score, data_for_month, previous_result, with_stats) ==
    LET with_predicted_results == WithPredictedResults(data_for_month)
    IN IF ~with_stats THEN with_predicted_results
       ELSE
       LET sorted == SortRows(BothDf(WithAggregates(with_predicted_results,
                                                    average_cv_score),
                                     previous_result), "grid_id", "date")
           rolled == [i \in 1..Len(sorted) |->
               LET r == sorted[i]
               IN [grid_id |-> r.grid_id, date |-> r.date,
                   target_col |-> r.target_col, feature1 |-> r.feature1,
                   target_col__predicted |-> r.target_col__predicted,
                   target_col__imputed_flag |-> r.target_col__imputed_flag,
                   target_col__imputed |-> r.target_col__imputed,
                   target_col__score |-> r.target_col__score,
                   target_col__share_imputed_across_all_grids |->
                       r.target_col__share_imputed_across_all_grids,
                   which_df |-> r.which_df,
                   target_col__imputed_r7d |-> RollingMean(sorted, i)]]
           current == SelectSeq(rolled, LAMBDA r : r.which_df = "current")
       IN [i \in 1..Len(current) |->
              [c \in (DOMAIN current[i]) \ {"which_df"} |-> current[i][c]]]

\* result_df.select(grid_id, date, ^target_col__.*$).sort(["date", "grid_id"])
WrittenColumns(row) ==
    (DOMAIN row) \ {"target_col", "feature1"}

SelectAndSort(result_df) ==
    SortRows([i \in 1..Len(result_df) |->
                 [c \in WrittenColumns(result_df[i]) |-> result_df[i][c]]],
             "date", "grid_id")

\* for month in self.temporal_config.months; the mutant walks them backwards
PredictMonthsReversed == [i \in 1..NumMonths |-> NumMonths + 1 - i]

PredictMonths == MonthsSeq

VARIABLES
    cv_results,         \* model.cv_results["test_r2"]
    min_r2_score,       \* model_ref.min_r2_score
    max_r2_score,       \* model_ref.max_r2_score
    include_stats,      \* the argument of predict
    input_partitions,   \* month -> rows of the input artifact
    output_partitions,  \* month -> rows written to the output artifact
    predict_state,      \* idle | read | compute | write | returned | raised
    month_index,        \* position of the loop in PredictMonths
    data_for_month,
    result_df,
    previous_result,
    predict_error,      \* the ValueError of the quality gate
    storage_calls,      \* read_dataframe / write_to_destination, in order
    length_warnings     \* months for which the length mismatch was logged

qvars == <<cv_results, min_r2_score, max_r2_score, include_stats,
           input_partitions, output_partitions, predict_state, month_index,
           data_for_month, result_df, previous_result, predict_error,
           storage_calls, length_warnings>>

ScoreValues == 0..2

QInit ==
    /\ cv_results \in {<<a>> : a \in ScoreValues}
                      \cup {<<a, b>> : a \in ScoreValues, b \in ScoreValues}
    /\ min_r2_score \in ScoreValues
    /\ max_r2_score \in ScoreValues
    /\ min_r2_score <= max_r2_score
    /\ include_stats \in BOOLEAN
    /\ \E kinds \in [Months -> MonthKinds] :
          input_partitions = [m \in Months |-> InputPartition(kinds[m], m)]
    /\ output_partitions = [m \in Months |-> <<>>]
    /\ predict_state = "idle"
    /\ month_index = 0
    /\ data_for_month = <<>>
    /\ result_df = <<>>
    /\ previous_result = NoPrevious
    /\ predict_error = "none"
    /\ storage_calls = <<>>
    /\ length_warnings = {}

\* previous_result = result_df; the variant carries what was persisted.
AsPreviousPersisted(result) == [is_none |-> FALSE, rows |-> SelectAndSort(result)]

AsPrevious(result) == [is_none |-> FALSE, rows |-> result]

\* predict: the quality gate, then previous_result = None and the loop head
Predict ==
    /\ predict_state = "idle"
    /\ LET gate == CheckModelQuality(AverageCvScore(cv_results),
                                     min_r2_score, max_r2_score)
       IN /\ predict_error' = gate
          /\ predict_state' = IF gate # "none" THEN "raised"
                              ELSE IF NumMonths = 0 THEN "returned" ELSE "read"
          /\ month_index' = IF gate # "none" THEN 0 ELSE 1
    /\ previous_result' = NoPrevious
    /\ UNCHANGED <<cv_results, min_r2_score, max_r2_score, include_stats,
                   input_partitions, output_partitions, data_for_month,
                   result_df, storage_calls, length_warnings>>

\* data_for_month = combined_storage.read_dataframe(input.for_month(month_id))
ReadMonth ==
    /\ predict_state = "read"
    /\ LET month == PredictMonths[month_index]
       IN /\ data_for_month' = input_partitions[month]
          /\ storage_calls' = Append(storage_calls, <<"read", month>>)
    /\ predict_state' = "compute"
    /\ UNCHANGED <<cv_results, min_r2_score, max_r2_score, include_stats,
                   input_partitions, output_partitions, month_index, result_df,
                   previous_result, predict_error, length_warnings>>

\* predictor.predict, _add_imputed_details_to_df, previous_result = result_df
\* and the length warning
ComputeMonth ==
    /\ predict_state = "compute"
    /\ LET month == PredictMonths[month_index]
           result == AddImputedDetailsToDf(AverageCvScore(cv_results),
                                           data_for_month, previous_result,
                                           include_stats)
       IN /\ result_df' = result
          /\ previous_result' = AsPrevious(result)
          /\ length_warnings' = IF Len(data_for_month) # Len(result)
                                THEN length_warnings \cup {month}
                                ELSE length_warnings
    /\ predict_state' = "write"
    /\ UNCHANGED <<cv_results, min_r2_score, max_r2_score, include_stats,
                   input_partitions, output_partitions, month_index,
                   data_for_month, predict_error, storage_calls>>

\* combined_storage.write_to_destination(...), then the next month
WriteMonth ==
    /\ predict_state = "write"
    /\ LET month == PredictMonths[month_index]
       IN /\ output_partitions' =
                 [output_partitions EXCEPT ![month] = SelectAndSort(result_df)]
          /\ storage_calls' = Append(storage_calls, <<"write", month>>)
    /\ month_index' = month_index + 1
    /\ predict_state' = IF month_index = Len(PredictMonths)
                        THEN "returned" ELSE "read"
    /\ UNCHANGED <<cv_results, min_r2_score, max_r2_score, include_stats,
                   input_partitions, data_for_month, result_df,
                   previous_result, predict_error, length_warnings>>

QIdle ==
    /\ cv_results = <<>>
    /\ min_r2_score = 0
    /\ max_r2_score = 0
    /\ include_stats = FALSE
    /\ input_partitions = [m \in Months |-> <<>>]
    /\ output_partitions = [m \in Months |-> <<>>]
    /\ predict_state = "idle"
    /\ month_index = 0
    /\ data_for_month = <<>>
    /\ result_df = <<>>
    /\ previous_result = NoPrevious
    /\ predict_error = "none"
    /\ storage_calls = <<>>
    /\ length_warnings = {}

\* ------------------------------------------------ SpatialImputationManager
\* Partitions are known by their row count and column names.
\* VALID_COUNTRIES["india"]: the number of grid cells.
GridCells == 2

\* _days_in_month
DaysInMonth(m) ==
    LET y == CalYear(m)
        leap == (y % 4 = 0 /\ y % 100 # 0) \/ y % 400 = 0
    IN CASE CalMonth(m) \in {4, 6, 9, 11} -> 30
         [] CalMonth(m) = 2 -> IF leap THEN 29 ELSE 28
         [] OTHER -> 31

ExpectedRows(m) == DaysInMonth(m) * GridCells

\* scan_stage("combined_monthly").select("month", "grid_id", "date", regex)
ScannedColumns == {"month", "grid_id", "date", "era5__value"}

\* ThreadPoolExecutor(8) of _impute_all_months; ThreadPoolExecutor() of the
\* skip check and the validation has at least 5 workers.
ImputePoolWorkers == 8
DefaultPoolWorkers == 5

\* The rows of a month in the scanned dataset: none, one per cell and day, or
\* one row short of that.
ScanKinds == {"missing", "full", "short"}

ScannedRows(kind, m) ==
    CASE kind = "missing" -> 0
      [] kind = "full" -> ExpectedRows(m)
      [] OTHER -> ExpectedRows(m) - 1

NoPartition == [exists |-> FALSE, num_rows |-> 0, columns |-> {}]

\* The output partition before the run: none, a valid one, one with a row
\* missing, one with the value column missing.
ImputedKinds == {"absent", "valid", "wrong_rows", "missing_columns"}

InitialImputed(kind, m) ==
    CASE kind = "absent" -> NoPartition
      [] kind = "valid" ->
            [exists |-> TRUE, num_rows |-> ExpectedRows(m),
             columns |-> ScannedColumns \ {"month"}]
      [] kind = "wrong_rows" ->
            [exists |-> TRUE, num_rows |-> ExpectedRows(m) - 1,
             columns |-> ScannedColumns \ {"month"}]
      [] OTHER ->
            [exists |-> TRUE, num_rows |-> ExpectedRows(m),
             columns |-> {"grid_id", "date"}]

NoSpatialError == [kind |-> "none", months |-> <<>>]

\* sorted(missing_months): the month ids in the order of their strings
SortedMonths(S) ==
    LET Rank(m) == 1 + Cardinality({k \in S : StrLess(MonthFormat(k), MonthFormat(m))})
    IN [p \in 1..Cardinality(S) |-> CHOOSE m \in S : Rank(m) = p]

\* The mutant finds every month present.
CheckAllMonthsPresentLenient(rows) == NoSpatialError

\* _check_all_months_present: the ValueError naming the missing months
CheckAllMonthsPresent(rows) ==
    LET available_to_process == {m \in DOMAIN rows : rows[m] > 0}
        missing_months == Months \ available_to_process
    IN IF missing_months # {}
       THEN [kind |-> "missing_months", months |-> SortedMonths(missing_months)]
       ELSE NoSpatialError

\* _validate_result on the output partition of a month
ValidateResult(out, m, expected_columns) ==
    IF ~out[m].exists THEN [kind |-> "not_found", months |-> <<m>>]
    ELSE IF out[m].num_rows # ExpectedRows(m)
    THEN [kind |-> "row_count", months |-> <<m>>]
    ELSE IF (expected_columns \ out[m].columns) \ {"month"} # {}
    THEN [kind |-> "missing_columns", months |-> <<m>>]
    ELSE NoSpatialError

\* A variant that sends every month to the interpolator.
NeedsUploadAlways(out, m, expected_columns) == TRUE

\* _needs_upload
NeedsUpload(out, m, expected_columns) ==
    IF ~out[m].exists THEN TRUE
    ELSE ValidateResult(out, m, expected_columns) # NoSpatialError

\* The mutant writes whatever the interpolator returned.
LengthAsExpectedAlways(actual_length, expected_length) == TRUE

\* process_month: actual_length != expected_length raises
LengthAsExpected(actual_length, expected_length) ==
    actual_length = expected_length

VARIABLES
    scanned_rows,       \* month -> rows of the month in the scanned dataset
    imputed,            \* month -> output partition
    imputed0,           \* the output partitions when impute was called
    sphase,             \* idle | identify | impute | validate | returned | raised
    ssubmitted,         \* the months handed to the current pool, in order
    stask,              \* month -> none | pending | running | done | failed | cancelled
    stask_error,        \* month -> the exception held by the task's future
    imputed_length,     \* month -> rows returned by the interpolator (Null: not yet)
    needs_upload,       \* month -> unchecked | yes | no
    months_to_upload,
    scollector,         \* draining | cancelling
    sdrain,
    scancel_at,
    serror,             \* the exception impute raised
    swrites             \* the months written by this run

svars == <<scanned_rows, imputed, imputed0, sphase, ssubmitted, stask, stask_error,
           imputed_length, needs_upload, months_to_upload, scollector, sdrain,
           scancel_at, serror, swrites>>

SPoolSize(phase) == IF phase = "impute" THEN ImputePoolWorkers ELSE DefaultPoolWorkers

SRunning == {m \in Months : stask[m] = "running"}

SSubmitAll(months) ==
    /\ ssubmitted' = months
    /\ stask' = [m \in Months |->
                    IF \E i \in 1..Len(months) : months[i] = m THEN "pending"
                    ELSE "none"]
    /\ stask_error' = [m \in Months |-> NoSpatialError]
    /\ scollector' = "draining"
    /\ sdrain' = 1
    /\ scancel_at' = 0

\* Leaving a pool's with block (shutdown(wait=True)) waits until no task is
\* pending or running; the variant does not wait.
AllTasksFinishedAlways(tasks) == TRUE

AllTasksFinished(tasks) == \A m \in Months : tasks[m] \in {"none", "done", "failed"}

SInit ==
    /\ \E sk \in [Months -> ScanKinds] :
          scanned_rows = [m \in Months |-> ScannedRows(sk[m], m)]
    /\ \E ik \in [Months -> ImputedKinds] :
          imputed = [m \in Months |-> InitialImputed(ik[m], m)]
    /\ imputed0 = imputed
    /\ sphase = "idle"
    /\ ssubmitted = <<>>
    /\ stask = [m \in Months |-> "none"]
    /\ stask_error = [m \in Months |-> NoSpatialError]
    /\ imputed_length = [m \in Months |-> Null]
    /\ needs_upload = [m \in Months |-> "unchecked"]
    /\ months_to_upload = <<>>
    /\ scollector = "draining"
    /\ sdrain = 1
    /\ scancel_at = 0
    /\ serror = NoSpatialError
    /\ swrites = {}

\* impute(): scan, _check_all_months_present, then the skip check's pool.
Impute ==
    /\ sphase = "idle"
    /\ LET found == CheckAllMonthsPresent(scanned_rows)
       IN IF found # NoSpatialError
          THEN /\ sphase' = "raised"
               /\ serror' = found
               /\ UNCHANGED <<ssubmitted, stask, stask_error, scollector,
                              sdrain, scancel_at>>
          ELSE /\ sphase' = "identify"
               /\ SSubmitAll(MonthsSeq)
               /\ UNCHANGED serror
    /\ UNCHANGED <<scanned_rows, imputed0, imputed, imputed_length, needs_upload,
                   months_to_upload, swrites>>

\* A worker takes the next work item of the queue (first in, first out).
SpatialTaskStart(m) ==
    /\ sphase \in {"identify", "impute", "validate"}
    /\ stask[m] = "pending"
    /\ \A k \in Months : k < m => stask[k] # "pending"
    /\ Cardinality(SRunning) < SPoolSize(sphase)
    /\ stask' = [stask EXCEPT ![m] = "running"]
    /\ UNCHANGED <<scanned_rows, imputed0, imputed, sphase, ssubmitted, stask_error,
                   imputed_length, needs_upload, months_to_upload, scollector,
                   sdrain, scancel_at, serror, swrites>>

\* The skip check's task of a month: _needs_upload.
NeedsUploadTask(m) ==
    /\ sphase = "identify"
    /\ stask[m] = "running"
    /\ needs_upload' = [needs_upload EXCEPT
                           ![m] = IF NeedsUpload(imputed, m, ScannedColumns)
                                  THEN "yes" ELSE "no"]
    /\ stask' = [stask EXCEPT ![m] = "done"]
    /\ UNCHANGED <<scanned_rows, imputed0, swrites, imputed, sphase,
                   ssubmitted, stask_error,
                   imputed_length, months_to_upload, scollector, sdrain,
                   scancel_at, serror>>

\* list(executor.map(...)) collected every answer: _impute_all_months starts.
IdentifyCollect ==
    /\ sphase = "identify"
    /\ \A m \in Months : stask[m] = "done"
    /\ months_to_upload' = SelectSeq(MonthsSeq, LAMBDA m : needs_upload[m] = "yes")
    /\ sphase' = "impute"
    /\ SSubmitAll(months_to_upload')
    /\ UNCHANGED <<scanned_rows, imputed0, imputed, imputed_length, needs_upload, serror,
                   swrites>>

\* process_month up to the length check: the interpolator returns as many
\* rows as it was given, one fewer or one more.
InterpolateTask(m) ==
    /\ sphase = "impute"
    /\ stask[m] = "running"
    /\ imputed_length[m] = Null
    /\ \E actual_length \in {scanned_rows[m] - 1, scanned_rows[m], scanned_rows[m] + 1} :
          /\ imputed_length' = [imputed_length EXCEPT ![m] = actual_length]
          /\ IF LengthAsExpected(actual_length, scanned_rows[m])
             THEN UNCHANGED <<stask, stask_error>>
             ELSE /\ stask' = [stask EXCEPT ![m] = "failed"]
                  /\ stask_error' = [stask_error EXCEPT
                                        ![m] = [kind |-> "length", months |-> <<m>>]]
    /\ UNCHANGED <<scanned_rows, imputed0, swrites, imputed, sphase,
                   ssubmitted, needs_upload,
                   months_to_upload, scollector, sdrain, scancel_at, serror>>

\* process_month: write_to_destination(imputed_month, output.for_month(month))
WriteImputedTask(m) ==
    /\ sphase = "impute"
    /\ stask[m] = "running"
    /\ imputed_length[m] # Null
    /\ imputed' = [imputed EXCEPT
                      ![m] = [exists |-> TRUE, num_rows |-> imputed_length[m],
                              columns |-> ScannedColumns \ {"month"}]]
    /\ stask' = [stask EXCEPT ![m] = "done"]
    /\ swrites' = swrites \cup {m}
    /\ UNCHANGED <<scanned_rows, imputed0, sphase, ssubmitted, stask_error,
                   imputed_length, needs_upload, months_to_upload, scollector,
                   sdrain, scancel_at, serror>>

\* Leaving the imputation pool's with block waits for every task; the
\* results of executor.map are not looked at.  _validate_all starts.
ImputeDone ==
    /\ sphase = "impute"
    /\ AllTasksFinished(stask)
    /\ sphase' = "validate"
    /\ SSubmitAll(months_to_upload)
    /\ UNCHANGED <<scanned_rows, imputed0, imputed, imputed_length, needs_upload,
                   months_to_upload, serror, swrites>>

\* The validation's task of a month: _validate_result.
ValidateResultTask(m) ==
    /\ sphase = "validate"
    /\ stask[m] = "running"
    /\ LET found == ValidateResult(imputed, m, ScannedColumns)
       IN /\ stask' = [stask EXCEPT
                          ![m] = IF found = NoSpatialError THEN "done" ELSE "failed"]
          /\ stask_error' = [stask_error EXCEPT ![m] = found]
    /\ UNCHANGED <<scanned_rows, imputed0, swrites, imputed, sphase,
                   ssubmitted, imputed_length,
                   needs_upload, months_to_upload, scollector, sdrain,
                   scancel_at, serror>>

\* deque(results): the results are collected in submission order.
SpatialDrainNext ==
    /\ sphase = "validate"
    /\ scollector = "draining"
    /\ sdrain <= Len(ssubmitted)
    /\ stask[ssubmitted[sdrain]] = "done"
    /\ sdrain' = sdrain + 1
    /\ UNCHANGED <<scanned_rows, imputed0, imputed, sphase, ssubmitted, stask,
                   stask_error, imputed_length, needs_upload, months_to_upload,
                   scollector, scancel_at, serror, swrites>>

\* The next result is an exception: the result iterator's finally clause
\* cancels the futures not yet collected, last one first.
SpatialDrainRaise ==
    /\ sphase = "validate"
    /\ scollector = "draining"
    /\ sdrain <= Len(ssubmitted)
    /\ stask[ssubmitted[sdrain]] = "failed"
    /\ serror' = stask_error[ssubmitted[sdrain]]
    /\ scollector' = "cancelling"
    /\ scancel_at' = Len(ssubmitted)
    /\ UNCHANGED <<scanned_rows, imputed0, imputed, sphase, ssubmitted, stask,
                   stask_error, imputed_length, needs_upload, months_to_upload,
                   sdrain, swrites>>

SpatialCancelNext ==
    /\ scollector = "cancelling"
    /\ scancel_at > sdrain
    /\ stask' = [stask EXCEPT ![ssubmitted[scancel_at]] =
                    IF stask[ssubmitted[scancel_at]] = "pending" THEN "cancelled"
                    ELSE stask[ssubmitted[scancel_at]]]
    /\ scancel_at' = scancel_at - 1
    /\ UNCHANGED <<scanned_rows, imputed0, imputed, sphase, ssubmitted, stask_error,
                   imputed_length, needs_upload, months_to_upload, scollector,
                   sdrain, serror, swrites>>

\* Leaving the validation pool waits for the running tasks; then the
\* exception reaches the caller of impute.
SpatialRaiseToCaller ==
    /\ sphase = "validate"
    /\ scollector = "cancelling"
    /\ scancel_at <= sdrain
    /\ SRunning = {}
    /\ sphase' = "raised"
    /\ UNCHANGED <<scanned_rows, imputed0, imputed, ssubmitted, stask, stask_error,
                   imputed_length, needs_upload, months_to_upload, scollector,
                   sdrain, scancel_at, serror, swrites>>

\* Every validation was collected: impute returns.
SpatialValidateDone ==
    /\ sphase = "validate"
    /\ scollector = "draining"
    /\ sdrain > Len(ssubmitted)
    /\ sphase' = "returned"
    /\ UNCHANGED <<scanned_rows, imputed0, imputed, ssubmitted, stask, stask_error,
                   imputed_length, needs_upload, months_to_upload, scollector,
                   sdrain, scancel_at, serror, swrites>>

SIdle ==
    /\ scanned_rows = [m \in Months |-> 0]
    /\ imputed = [m \in Months |-> NoPartition]
    /\ imputed0 = imputed
    /\ sphase = "idle"
    /\ ssubmitted = <<>>
    /\ stask = [m \in Months |-> "none"]
    /\ stask_error = [m \in Months |-> NoSpatialError]
    /\ imputed_length = [m \in Months |-> Null]
    /\ needs_upload = [m \in Months |-> "unchecked"]
    /\ months_to_upload = <<>>
    /\ scollector = "draining"
    /\ sdrain = 1
    /\ scancel_at = 0
    /\ serror = NoSpatialError
    /\ swrites = {}

\* ------------------------------------------- CreaMeasurementsApiDataSource
\* Two instances of the data source, two calling threads, and the two cached
\* methods of an instance, each with its own lock and cache.
Instances == {1, 2}
Callers == {1, 2}
Methods == {"fetch_station_stats", "fetch_stations_for_india"}
MaxCalls == 2

Targets == Instances \X Methods

\* A lock can be taken when no thread holds it; the variant lets every
\* thread in.
LockIsFreeAlways(holder) == TRUE

LockIsFree(holder) == holder = 0

VARIABLES
    dcache,         \* target -> the cached DataFrame (an object id), 0 for None
    dlock,          \* target -> the thread holding the lock, 0 when free
    dfetches,       \* target -> remote fetches that succeeded
    dlate,          \* target -> remote fetches begun after one had succeeded
    dobjects,       \* DataFrames created so far (the next object id is one more)
    dpc,            \* thread -> idle | acquire | locked | fetching | returned | raised
    dtarget,        \* thread -> the instance and method of its call
    dret,           \* thread -> the object its last call returned, 0 for none
    dcalls          \* thread -> calls made

dvars == <<dcache, dlock, dfetches, dlate, dobjects, dpc, dtarget, dret, dcalls>>

DIdle ==
    /\ dcache = [x \in Targets |-> 0]
    /\ dlock = [x \in Targets |-> 0]
    /\ dfetches = [x \in Targets |-> 0]
    /\ dlate = [x \in Targets |-> 0]
    /\ dobjects = 0
    /\ dpc = [t \in Callers |-> "idle"]
    /\ dtarget = [t \in Callers |-> <<1, "fetch_station_stats">>]
    /\ dret = [t \in Callers |-> 0]
    /\ dcalls = [t \in Callers |-> 0]

\* __init__: both caches None, both locks free.
DInit == DIdle

\* A thread calls fetch_station_stats or fetch_stations_for_india on an instance.
FetchCall(t, x) ==
    /\ dpc[t] \in {"idle", "returned", "raised"}
    /\ dcalls[t] < MaxCalls
    /\ dcalls' = [dcalls EXCEPT ![t] = dcalls[t] + 1]
    /\ dtarget' = [dtarget EXCEPT ![t] = x]
    /\ dret' = [dret EXCEPT ![t] = 0]
    /\ dpc' = [dpc EXCEPT ![t] = "acquire"]
    /\ UNCHANGED <<dcache, dlock, dfetches, dlate, dobjects>>

\* with self._station_stats_lock: (self._stations_lock)
AcquireLock(t) ==
    /\ dpc[t] = "acquire"
    /\ LockIsFree(dlock[dtarget[t]])
    /\ dlock' = [dlock EXCEPT ![dtarget[t]] = t]
    /\ dpc' = [dpc EXCEPT ![t] = "locked"]
    /\ UNCHANGED <<dcache, dfetches, dlate, dobjects, dtarget, dret, dcalls>>

\* if self._station_stats_cache is not None: return it (leaving the with
\* block releases the lock); otherwise the remote fetch follows.
CheckCache(t) ==
    /\ dpc[t] = "locked"
    /\ IF dcache[dtarget[t]] # 0
       THEN /\ dret' = [dret EXCEPT ![t] = dcache[dtarget[t]]]
            /\ dlock' = [dlock EXCEPT ![dtarget[t]] = 0]
            /\ dpc' = [dpc EXCEPT ![t] = "returned"]
            /\ UNCHANGED dlate
       ELSE /\ dpc' = [dpc EXCEPT ![t] = "fetching"]
            /\ dlate' = [dlate EXCEPT ![dtarget[t]] =
                            dlate[dtarget[t]] + dfetches[dtarget[t]]]
            /\ UNCHANGED <<dret, dlock>>
    /\ UNCHANGED <<dcache, dfetches, dobjects, dtarget, dcalls>>

\* pl.scan_csv(...).collect() (pl.read_csv) returns a new DataFrame, which
\* is cached and returned, or raises; either way the lock is released.
RemoteFetch(t) ==
    /\ dpc[t] = "fetching"
    /\ \E succeeds \in BOOLEAN :
          IF succeeds
          THEN /\ dobjects' = dobjects + 1
               /\ dcache' = [dcache EXCEPT ![dtarget[t]] = dobjects + 1]
               /\ dfetches' = [dfetches EXCEPT ![dtarget[t]] = dfetches[dtarget[t]] + 1]
               /\ dret' = [dret EXCEPT ![t] = dobjects + 1]
               /\ dpc' = [dpc EXCEPT ![t] = "returned"]
          ELSE /\ dpc' = [dpc EXCEPT ![t] = "raised"]
               /\ UNCHANGED <<dobjects, dcache, dfetches, dret>>
    /\ dlock' = [dlock EXCEPT ![dtarget[t]] = 0]
    /\ UNCHANGED <<dlate, dtarget, dcalls>>

\* ----------------------------------------------------------- TemporalConfig
\* Dates are a calendar month (an index as for CalYear and CalMonth) and a
\* day of the month, at midnight.
LastMonthIndex == 5

IsLeap(y) == (y % 4 = 0 /\ y % 100 # 0) \/ y % 400 = 0

LastDay(i) ==
    CASE CalMonth(i) = 2 -> IF IsLeap(CalYear(i)) THEN 29 ELSE 28
      [] CalMonth(i) \in {4, 6, 9, 11} -> 30
      [] OTHER -> 31

DaysOfMonth == {1, 15, 28, 30, 31}

Dates ==
    {dt \in [m : 0..LastMonthIndex, d : DaysOfMonth] : dt.d <= LastDay(dt.m)}

DateLeq(a, b) == a.m < b.m \/ (a.m = b.m /\ a.d <= b.d)

\* Arrow.shift(months=1): the same day of the next month, clipped to its end.
ShiftMonth(dt) ==
    [m |-> dt.m + 1, d |-> IF dt.d <= LastDay(dt.m + 1) THEN dt.d ELSE LastDay(dt.m + 1)]

\* Arrow.range("month", start, end): start, then one month further on each
\* step while the date is not after end; a day clipped by a short month is
\* restored in the longer months that follow.
RECURSIVE ArrowRangeFrom(_, _, _, _)
ArrowRangeFrom(current, end, original_day, day_is_clipped) ==
    IF ~DateLeq(current, end) THEN <<>>
    ELSE LET shifted == ShiftMonth(current)
             clipped == day_is_clipped \/ shifted.d < original_day
             next == IF clipped /\ shifted.d # LastDay(shifted.m)
                     THEN [shifted EXCEPT !.d = original_day]
                     ELSE shifted
         IN <<current>> \o ArrowRangeFrom(next, end, original_day, clipped)

ArrowRange(start, end) == ArrowRangeFrom(start, end, start.d, FALSE)

\* list(range(a, b + 1))
IntRange(a, b) == [k \in 1..(b + 1 - a) |-> a + k - 1]

\* month.format("YYYY-MM")
FormatYearMonth(dt) == MonthFormat(dt.m)

VARIABLES
    start_date,     \* TemporalConfig.start_date
    end_date,       \* TemporalConfig.end_date
    tc_derived,     \* the properties read so far
    tc_months,      \* the value of months
    tc_month_ids,   \* the value of month_ids
    tc_years        \* the value of years

tvars == <<start_date, end_date, tc_derived, tc_months, tc_month_ids, tc_years>>

TIdle ==
    /\ start_date = [m |-> 0, d |-> 1]
    /\ end_date = [m |-> 0, d |-> 1]
    /\ tc_derived = {}
    /\ tc_months = <<>>
    /\ tc_month_ids = <<>>
    /\ tc_years = <<>>

\* A TemporalConfig with start_date <= end_date.
TInit ==
    /\ start_date \in Dates
    /\ end_date \in Dates
    /\ DateLeq(start_date, end_date)
    /\ tc_derived = {}
    /\ tc_months = <<>>
    /\ tc_month_ids = <<>>
    /\ tc_years = <<>>

\* TemporalConfig.months
ReadMonths ==
    /\ "months" \notin tc_derived
    /\ tc_months' = ArrowRange(start_date, end_date)
    /\ tc_derived' = tc_derived \cup {"months"}
    /\ UNCHANGED <<start_date, end_date, tc_month_ids, tc_years>>

\* TemporalConfig.month_ids
ReadMonthIds ==
    /\ "month_ids" \notin tc_derived
    /\ tc_month_ids' = LET ms == ArrowRange(start_date, end_date)
                       IN [k \in 1..Len(ms) |-> FormatYearMonth(ms[k])]
    /\ tc_derived' = tc_derived \cup {"month_ids"}
    /\ UNCHANGED <<start_date, end_date, tc_months, tc_years>>

\* TemporalConfig.years
ReadYears ==
    /\ "years" \notin tc_derived
    /\ tc_years' = IntRange(CalYear(start_date.m), CalYear(end_date.m))
    /\ tc_derived' = tc_derived \cup {"years"}
    /\ UNCHANGED <<start_date, end_date, tc_months, tc_month_ids>>

\* The components added after the first four, and their state at rest.
\* ---------------------------------------------------- ImputationController
\* The names the project's imputation models can have.
ModelNames == {"aod", "no2", "co"}

\* model_refs is a dict: its keys are distinct and keep insertion order.
ModelRefOrders ==
    {s \in UNION {[1..n -> ModelNames] : n \in 0..Cardinality(ModelNames)} :
        \A i \in DOMAIN s, j \in DOMAIN s : i # j => s[i] # s[j]}

InputDataArtifact == [stage |-> "generated", sub |-> "none"]

OutputDataArtifact == [stage |-> "imputed", sub |-> "none"]

\* output_data_artifact.for_sub_artifact(model_name)
ForSubArtifact(artifact, model_name) == [stage |-> artifact.stage, sub |-> model_name]

\* The variant of the stages with the input artifact last.
StagesToRecombineInputLast(input, added) == added \o <<input>>

\* stages=[self.input_data_artifact, *to_add_stage_names]
StagesToRecombine(input, added) == <<input>> \o added

VARIABLES model_refs, cpc, to_add_stage_names, predict_calls, craised,
          recombine_calls, recombine_stages

cvars == <<model_refs, cpc, to_add_stage_names, predict_calls, craised,
           recombine_calls, recombine_stages>>

CIdle ==
    /\ model_refs = <<>>
    /\ cpc = "idle"
    /\ to_add_stage_names = <<>>
    /\ predict_calls = <<>>
    /\ craised = "none"
    /\ recombine_calls = 0
    /\ recombine_stages = <<>>

CInit ==
    /\ model_refs \in ModelRefOrders
    /\ cpc = "idle"
    /\ to_add_stage_names = <<>>
    /\ predict_calls = <<>>
    /\ craised = "none"
    /\ recombine_calls = 0
    /\ recombine_stages = <<>>

\* The position after the loop body for one model: the next model, or the
\* recombination when the models are exhausted.
AfterModel(done) == IF done = Len(model_refs) THEN "recombine" ELSE "load"

\* ImputationController.impute enters _impute_for_all with an empty list.
ControllerImpute ==
    /\ cpc = "idle"
    /\ cpc' = AfterModel(0)
    /\ to_add_stage_names' = <<>>
    /\ UNCHANGED <<model_refs, predict_calls, craised, recombine_calls, recombine_stages>>

\* _impute_for_model, up to the construction of the predictor:
\* model_store.load_latest_model returns or raises.
LoadLatestModel ==
    /\ cpc = "load"
    /\ \E ok \in BOOLEAN :
          IF ok
          THEN /\ cpc' = "predict"
               /\ craised' = craised
          ELSE /\ cpc' = "raised"
               /\ craised' = "load_latest_model"
    /\ UNCHANGED <<model_refs, to_add_stage_names, predict_calls, recombine_calls, recombine_stages>>

\* regression_model_imputer.predict() for the current model returns, and the
\* sub-artifact is appended, or it raises out of impute.
PredictModel ==
    /\ cpc = "predict"
    /\ LET model_name == model_refs[Len(to_add_stage_names) + 1]
       IN /\ predict_calls' = Append(predict_calls, model_name)
          /\ \E ok \in BOOLEAN :
                IF ok
                THEN /\ to_add_stage_names' =
                            Append(to_add_stage_names,
                                   ForSubArtifact(OutputDataArtifact, model_name))
                     /\ cpc' = AfterModel(Len(to_add_stage_names) + 1)
                     /\ craised' = craised
                ELSE /\ to_add_stage_names' = to_add_stage_names
                     /\ cpc' = "raised"
                     /\ craised' = "predict"
    /\ UNCHANGED <<model_refs, recombine_calls, recombine_stages>>

\* self.recombiner.recombine(stages=[...]) returns or raises.
RecombineStages ==
    /\ cpc = "recombine"
    /\ recombine_calls' = recombine_calls + 1
    /\ recombine_stages' = StagesToRecombine(InputDataArtifact, to_add_stage_names)
    /\ \E ok \in BOOLEAN :
          IF ok
          THEN /\ cpc' = "returned"
               /\ craised' = craised
          ELSE /\ cpc' = "raised"
               /\ craised' = "recombine"
    /\ UNCHANGED <<model_refs, to_add_stage_names, predict_calls>>

\* ------------------------------------------- HarmonySubsetterDataRetriever
\* The number of status requests after which the wait is no longer followed.
MaxPolls == 3

job_complete_percentage == 100

JobStatuses == {"running", "successful", "failed", "canceled"}

ProgressValues == {0, 50, job_complete_percentage}

\* A link of a status response; rel "absent" is a link without the rel key.
DataLink(n) == [rel |-> "data", href |-> n]

SelfLink(n) == [rel |-> "self", href |-> n]

BareLink(n) == [rel |-> "absent", href |-> n]

LinkLists ==
    {<<>>, <<DataLink(1)>>, <<SelfLink(1), DataLink(2), BareLink(3)>>}

NoResponse == [status |-> "none", progress |-> 0, links |-> <<>>]

\* link.get("rel", "data")
RelOf(link) == IF link.rel = "absent" THEN "data" ELSE link.rel

IsDataLink(link) == RelOf(link) = "data"

\* [link for link in job_status_response["links"] if link.get("rel", "data") == "data"]
DataLinks(links) == SelectSeq(links, IsDataLink)

\* _is_job_running
IsJobRunning(job_status) ==
    /\ job_status.status = "running"
    /\ job_status.progress < job_complete_percentage

\* The variant of _has_job_succeeded that does not look at the progress.
HasJobSucceededAnyProgress(job_status) == job_status.status = "successful"

\* _has_job_succeeded
HasJobSucceeded(job_status) ==
    /\ job_status.status = "successful"
    /\ job_status.progress = job_complete_percentage

VARIABLES job, job_status_response, hpc, hresult, herror, hpolls

hvars == <<job, job_status_response, hpc, hresult, herror, hpolls>>

HIdle ==
    /\ job = NoResponse
    /\ job_status_response = NoResponse
    /\ hpc = "idle"
    /\ hresult = <<>>
    /\ herror = "none"
    /\ hpolls = 0

\* A job has been submitted: it is running and has made no progress.
HInit ==
    /\ \E links \in LinkLists : job = [status |-> "running", progress |-> 0, links |-> links]
    /\ job_status_response = NoResponse
    /\ hpc = "idle"
    /\ hresult = <<>>
    /\ herror = "none"
    /\ hpolls = 0

\* The service moves the job on: a running job gains progress or changes
\* status; a job that has left the running status stays as it is.
JobAdvances(status, progress) ==
    /\ hpc \in {"idle", "polling"}
    /\ job.status = "running"
    /\ progress >= job.progress
    /\ <<status, progress>> # <<job.status, job.progress>>
    /\ job' = [job EXCEPT !.status = status, !.progress = progress]
    /\ UNCHANGED <<job_status_response, hpc, hresult, herror, hpolls>>

\* _await_download_url_results: the first _fetch_job_status.
AwaitDownloadUrlResults ==
    /\ hpc = "idle"
    /\ job_status_response' = job
    /\ hpolls' = 1
    /\ hpc' = "polling"
    /\ UNCHANGED <<job, hresult, herror>>

\* The loop body: the job is running, sleep and fetch the status again.
SleepAndFetch ==
    /\ hpc = "polling"
    /\ IsJobRunning(job_status_response)
    /\ hpolls < MaxPolls
    /\ job_status_response' = job
    /\ hpolls' = hpolls + 1
    /\ UNCHANGED <<job, hpc, hresult, herror>>

\* After the loop: return the data links or raise NedMissingDataError.
LeaveLoop ==
    /\ hpc = "polling"
    /\ ~IsJobRunning(job_status_response)
    /\ IF HasJobSucceeded(job_status_response)
       THEN /\ hpc' = "returned"
            /\ hresult' = DataLinks(job_status_response.links)
            /\ herror' = herror
       ELSE /\ hpc' = "raised"
            /\ hresult' = hresult
            /\ herror' = "NedMissingDataError"
    /\ UNCHANGED <<job, job_status_response, hpolls>>

xvars == <<dvars, tvars, cvars, hvars>>

XIdle == DIdle /\ TIdle /\ CIdle /\ HIdle

vars == <<rvars, pvars, qvars, svars, xvars>>

RecombineInit == RInit /\ PIdle /\ QIdle /\ SIdle /\ XIdle

other_than_recombiner == <<pvars, qvars, svars, xvars>>

RecombineNext ==
    \/ (Recombine) /\ UNCHANGED other_than_recombiner
    \/ (\E m \in Months : TaskStart(m)) /\ UNCHANGED other_than_recombiner
    \/ (\E m \in Months : NeedsRecombiningTask(m)) /\ UNCHANGED other_than_recombiner
    \/ (FilterCollect) /\ UNCHANGED other_than_recombiner
    \/ (\E m \in Months : ProcessMonth(m)) /\ UNCHANGED other_than_recombiner
    \/ (\E m \in Months : ValidateTask(m)) /\ UNCHANGED other_than_recombiner
    \/ (DrainNext) /\ UNCHANGED other_than_recombiner
    \/ (DrainRaise) /\ UNCHANGED other_than_recombiner
    \/ (CancelNext) /\ UNCHANGED other_than_recombiner
    \/ (RaiseToCaller) /\ UNCHANGED other_than_recombiner
    \/ (ProcessDone) /\ UNCHANGED other_than_recombiner
    \/ (ValidateDone) /\ UNCHANGED other_than_recombiner

SpecRecombine == RecombineInit /\ [][RecombineNext]_vars

PlanInit == PInit /\ RIdle /\ QIdle /\ SIdle /\ XIdle

other_than_planner == <<rvars, qvars, svars, xvars>>

PlanNext ==
    \/ PlanReturns /\ UNCHANGED other_than_planner
    \/ PlanRaises /\ UNCHANGED other_than_planner

SpecPlan == PlanInit /\ [][PlanNext]_vars

PredictInit == QInit /\ RIdle /\ PIdle /\ SIdle /\ XIdle

other_than_predictor == <<rvars, pvars, svars, xvars>>

PredictNext ==
    \/ Predict /\ UNCHANGED other_than_predictor
    \/ ReadMonth /\ UNCHANGED other_than_predictor
    \/ ComputeMonth /\ UNCHANGED other_than_predictor
    \/ WriteMonth /\ UNCHANGED other_than_predictor

SpecPredict == PredictInit /\ [][PredictNext]_vars

SpatialInit == SInit /\ RIdle /\ PIdle /\ QIdle /\ XIdle

other_than_spatial == <<rvars, pvars, qvars, xvars>>

SpatialNext ==
    \/ (Impute) /\ UNCHANGED other_than_spatial
    \/ (\E m \in Months : SpatialTaskStart(m)) /\ UNCHANGED other_than_spatial
    \/ (\E m \in Months : NeedsUploadTask(m)) /\ UNCHANGED other_than_spatial
    \/ (IdentifyCollect) /\ UNCHANGED other_than_spatial
    \/ (\E m \in Months : InterpolateTask(m)) /\ UNCHANGED other_than_spatial
    \/ (\E m \in Months : WriteImputedTask(m)) /\ UNCHANGED other_than_spatial
    \/ (ImputeDone) /\ UNCHANGED other_than_spatial
    \/ (\E m \in Months : ValidateResultTask(m)) /\ UNCHANGED other_than_spatial
    \/ (SpatialDrainNext) /\ UNCHANGED other_than_spatial
    \/ (SpatialDrainRaise) /\ UNCHANGED other_than_spatial
    \/ (SpatialCancelNext) /\ UNCHANGED other_than_spatial
    \/ (SpatialRaiseToCaller) /\ UNCHANGED other_than_spatial
    \/ (SpatialValidateDone) /\ UNCHANGED other_than_spatial

SpecSpatial == SpatialInit /\ [][SpatialNext]_vars

\* Either entry point with a skip check is called: recombine on a storage
\* holding the input stages, or impute on a scanned dataset.
RecombinerInUse == storage # [ref \in Refs |-> Absent]

SpatialInUse ==
    ~(/\ scanned_rows = [m \in Months |-> 0]
      /\ imputed0 = [m \in Months |-> NoPartition])

SkipChecksInit == RecombineInit \/ SpatialInit

SkipChecksNext ==
    \/ RecombinerInUse /\ (Recombine) /\ UNCHANGED other_than_recombiner
    \/ RecombinerInUse /\ (\E m \in Months : TaskStart(m)) /\ UNCHANGED other_than_recombiner
    \/ RecombinerInUse /\ (\E m \in Months : NeedsRecombiningTask(m)) /\ UNCHANGED other_than_recombiner
    \/ RecombinerInUse /\ (FilterCollect) /\ UNCHANGED other_than_recombiner
    \/ RecombinerInUse /\ (\E m \in Months : ProcessMonth(m)) /\ UNCHANGED other_than_recombiner
    \/ RecombinerInUse /\ (\E m \in Months : ValidateTask(m)) /\ UNCHANGED other_than_recombiner
    \/ RecombinerInUse /\ (DrainNext) /\ UNCHANGED other_than_recombiner
    \/ RecombinerInUse /\ (DrainRaise) /\ UNCHANGED other_than_recombiner
    \/ RecombinerInUse /\ (CancelNext) /\ UNCHANGED other_than_recombiner
    \/ RecombinerInUse /\ (RaiseToCaller) /\ UNCHANGED other_than_recombiner
    \/ RecombinerInUse /\ (ProcessDone) /\ UNCHANGED other_than_recombiner
    \/ RecombinerInUse /\ (ValidateDone) /\ UNCHANGED other_than_recombiner
    \/ SpatialInUse /\ (Impute) /\ UNCHANGED other_than_spatial
    \/ SpatialInUse /\ (\E m \in Months : SpatialTaskStart(m)) /\ UNCHANGED other_than_spatial
    \/ SpatialInUse /\ (\E m \in Months : NeedsUploadTask(m)) /\ UNCHANGED other_than_spatial
    \/ SpatialInUse /\ (IdentifyCollect) /\ UNCHANGED other_than_spatial
    \/ SpatialInUse /\ (\E m \in Months : InterpolateTask(m)) /\ UNCHANGED other_than_spatial
    \/ SpatialInUse /\ (\E m \in Months : WriteImputedTask(m)) /\ UNCHANGED other_than_spatial
    \/ SpatialInUse /\ (ImputeDone) /\ UNCHANGED other_than_spatial
    \/ SpatialInUse /\ (\E m \in Months : ValidateResultTask(m)) /\ UNCHANGED other_than_spatial
    \/ SpatialInUse /\ (SpatialDrainNext) /\ UNCHANGED other_than_spatial
    \/ SpatialInUse /\ (SpatialDrainRaise) /\ UNCHANGED other_than_spatial
    \/ SpatialInUse /\ (SpatialCancelNext) /\ UNCHANGED other_than_spatial
    \/ SpatialInUse /\ (SpatialRaiseToCaller) /\ UNCHANGED other_than_spatial
    \/ SpatialInUse /\ (SpatialValidateDone) /\ UNCHANGED other_than_spatial

SpecSkipChecks == SkipChecksInit /\ [][SkipChecksNext]_vars

DataSourceInit == DInit /\ RIdle /\ PIdle /\ QIdle /\ SIdle /\ TIdle /\ CIdle /\ HIdle

other_than_datasource == <<rvars, pvars, qvars, svars, tvars, cvars, hvars>>

DataSourceNext ==
    \/ (\E t \in Callers, x \in Targets : FetchCall(t, x))
           /\ UNCHANGED other_than_datasource
    \/ (\E t \in Callers : AcquireLock(t)) /\ UNCHANGED other_than_datasource
    \/ (\E t \in Callers : CheckCache(t)) /\ UNCHANGED other_than_datasource
    \/ (\E t \in Callers : RemoteFetch(t)) /\ UNCHANGED other_than_datasource

SpecDataSource == DataSourceInit /\ [][DataSourceNext]_vars

TemporalInit == TInit /\ RIdle /\ PIdle /\ QIdle /\ SIdle /\ DIdle /\ CIdle /\ HIdle

other_than_temporal == <<rvars, pvars, qvars, svars, dvars, cvars, hvars>>

TemporalNext ==
    \/ ReadMonths /\ UNCHANGED other_than_temporal
    \/ ReadMonthIds /\ UNCHANGED other_than_temporal
    \/ ReadYears /\ UNCHANGED other_than_temporal

SpecTemporal == TemporalInit /\ [][TemporalNext]_vars

ControllerInit == CInit /\ RIdle /\ PIdle /\ QIdle /\ SIdle /\ DIdle /\ TIdle /\ HIdle

other_than_controller == <<rvars, pvars, qvars, svars, dvars, tvars, hvars>>

ControllerNext ==
    \/ ControllerImpute /\ UNCHANGED other_than_controller
    \/ LoadLatestModel /\ UNCHANGED other_than_controller
    \/ PredictModel /\ UNCHANGED other_than_controller
    \/ RecombineStages /\ UNCHANGED other_than_controller

SpecController == ControllerInit /\ [][ControllerNext]_vars

HarmonyInit == HInit /\ RIdle /\ PIdle /\ QIdle /\ SIdle /\ DIdle /\ TIdle /\ CIdle

other_than_harmony == <<rvars, pvars, qvars, svars, dvars, tvars, cvars>>

HarmonyNext ==
    \/ \E status \in JobStatuses, progress \in ProgressValues :
           JobAdvances(status, progress) /\ UNCHANGED other_than_harmony
    \/ AwaitDownloadUrlResults /\ UNCHANGED other_than_harmony
    \/ SleepAndFetch /\ UNCHANGED other_than_harmony
    \/ LeaveLoop /\ UNCHANGED other_than_harmony

SpecHarmony == HarmonyInit /\ [][HarmonyNext]_vars

\* ------------------------------------------------------ Recombiner claims
Ended == rphase \in {"returned", "raised"}

\* The month's output partition exists and passes _validate_combined in st.
ValidAt(st, m) ==
    DoesDatasetExist(st, <<OutStage, m>>) /\ ValidateCombined(st, m) = NoError

\* C1: with force_recombine=false, when the first call of recombine returned
\* normally and nothing changed the partitions since, the second call with
\* the same stages calls write_to_destination for no month.
C1_SecondRunWritesNothing ==
    (rcall = 2 /\ ~force_recombine /\ first.outcome = "returned") => writes = {}

C1_Witness ==
    /\ rcall = 2 /\ ~force_recombine /\ first.outcome = "returned"
    /\ first.writes # {}
    /\ rphase = "returned"

\* C2: with force_recombine=false a call of recombine, failing or not, writes
\* only months whose output partition was missing or invalid at the skip
\* check; a month whose output existed and validated is not written by the
\* call and the next call's skip check flags it as not needing recombination.
C2_WritesOnlyFlaggedMonths ==
    ~force_recombine =>
        \A m \in Months :
            /\ ValidAt(storage0, m) => m \notin writes
            /\ (rcall = 2 /\ ValidAt(first.storage0, m)) =>
                   m \notin first.writes /\ needs[m] # "yes"

C2_Witness ==
    /\ ~force_recombine /\ rcall = 2 /\ first.outcome = "raised"
    /\ first.writes # {}
    /\ \E m \in Months : ValidAt(first.storage0, m) /\ needs[m] = "no"

\* The non-identifier columns two of the month's input partitions share.
PairwiseShared(st, m) ==
    {(st[<<Stages[i], m>>].columns \cap st[<<Stages[j], m>>].columns) \ IdColumns :
        <<i, j>> \in {p \in (1..Len(Stages)) \X (1..Len(Stages)) : p[1] < p[2]}}
        \ {{}}

\* The non-identifier columns that the first input colliding with the inputs
\* before it shares with them ({} when no input collides).
FirstCollision(st, m) ==
    LET cols(i) == st[<<Stages[i], m>>].columns
        before(i) == UNION {cols(j) : j \in 1..(i - 1)}
        colliding == {i \in 2..Len(Stages) : (before(i) \cap cols(i)) \ IdColumns # {}}
    IN IF colliding = {} THEN {}
       ELSE LET i == CHOOSE x \in colliding : \A y \in colliding : x <= y
            IN (before(i) \cap cols(i)) \ IdColumns

\* C4 as stated: whenever two input partitions of some month share a
\* non-identifier column and overwrite_columns=false, recombine raises an
\* error naming shared columns and writes no output for that month.
C4_AsStated ==
    (Ended /\ ~overwrite_columns) =>
        \A m \in Months :
            PairwiseShared(storage, m) # {} =>
                /\ rphase = "raised"
                /\ rerror.kind = "shared_columns"
                /\ rerror.columns \in PairwiseShared(storage, m)
                /\ m \notin writes

\* C4 (amended): with overwrite_columns=false, for every month whose task
\* recombine runs, if an input shares a non-identifier column with the frame
\* accumulated from the inputs before it, the task raises an error naming
\* exactly the columns shared at the first such input, nothing is written
\* for the month, and recombine does not return normally.
C4_ProcessedCollisionRaises ==
    ~overwrite_columns =>
        \A m \in Months :
            FirstCollision(storage, m) # {} =>
                /\ m \notin writes
                /\ (rphase \in {"process", "raised"} /\ task[m] \in {"done", "failed"}) =>
                       /\ task[m] = "failed"
                       /\ task_error[m] = [kind |-> "shared_columns",
                                           columns |-> FirstCollision(storage, m),
                                           month |-> m]
                /\ (\E i \in 1..Len(filtered_months) : filtered_months[i] = m) =>
                       rphase \in {"process", "raised"}
                /\ (rphase = "raised" /\ task[m] = "failed") =>
                       rerror.kind = "shared_columns"

C4_Witness ==
    /\ ~overwrite_columns /\ rphase = "raised"
    /\ \E m \in Months :
          /\ task[m] = "failed"
          /\ task_error[m].columns = {"sh"}
          /\ rerror = task_error[m]
          /\ PairwiseShared(storage, m) = {{"sh"}, {"v1"}}

\* The value the last input holding column c has for the row's identifiers:
\* the input's own value where it has the row, null where it has not.
LastInputValueIs(st, m, row, c) ==
    LET holders == {i \in 1..Len(Stages) : c \in st[<<Stages[i], m>>].columns}
        last == CHOOSE i \in holders : \A j \in holders : j <= i
        src == st[<<Stages[last], m>>]
        matches == {r \in src.rows :
                       \A k \in src.columns \cap IdColumns : r[k] = row[k]}
    IN IF matches = {} THEN row[c] = Null
       ELSE \E r \in matches : row[c] = r[c]

\* C5: with overwrite_columns=true every non-identifier column of a written
\* output holds the values of the last input that has the column, and no
\* identifier column is dropped.
C5_LastInputWins ==
    overwrite_columns =>
        \A m \in writes :
            LET out == storage[<<OutStage, m>>]
                inputs == UNION {storage[<<Stages[i], m>>].columns :
                                    i \in 1..Len(Stages)}
            IN /\ out.columns = inputs
               /\ IdColumns \subseteq out.columns
               /\ \A row \in out.rows : \A c \in out.columns \ IdColumns :
                      LastInputValueIs(storage, m, row, c)

C5_Witness ==
    /\ overwrite_columns
    /\ \E m \in writes :
          /\ FirstCollision(storage, m) # {}
          /\ \E row \in storage[<<OutStage, m>>].rows :
                row["v1"] = Null /\ row["sh"] # Null

\* ------------------------------------------------------ CombinePlanner claims
\* The members of a dataset among the results, and the place in time of the
\* partition a month asks of the dataset.
MembersOf(d) == {results[i] : i \in {j \in 1..Len(results) : results[j].dataset = d}}

TargetOrd(d, m) ==
    CASE d = "static_dataset" -> 0
      [] d = "yearly_dataset" -> CalYear(m)
      [] OTHER -> CalYear(m) * 12 + CalMonth(m)

ExactEmptyCopy(d, m) ==
    \E r \in MembersOf(d) :
        /\ r.ord = TargetOrd(d, m)
        /\ ~r.data_available
        /\ r.missing_data_heuristic = "COPY_LATEST_AVAILABLE_BEFORE"

CompleteBefore(d, m) ==
    {r \in MembersOf(d) : r.data_available /\ r.ord < TargetOrd(d, m)}

\* C3: when the exact-match member of a dataset for a month is EMPTY with
\* policy COPY_LATEST_AVAILABLE_BEFORE, a plan that is returned holds for that
\* dataset and month exactly the partition of the latest COMPLETE member
\* strictly before the target; when there is no COMPLETE member before the
\* target, plan raises and returns no plan.
C3_CopiesLatestAvailableBefore ==
    plan_state # "idle" =>
        \A m \in Months : \A d \in DatasetNames(results) :
            ExactEmptyCopy(d, m) =>
                IF CompleteBefore(d, m) = {}
                THEN plan_state = "failed" /\ plans = NoPlans
                ELSE plan_state = "planned" =>
                        \E r \in CompleteBefore(d, m) :
                            /\ \A q \in CompleteBefore(d, m) : q.ord <= r.ord
                            /\ {p \in plans[m].paths : p.dataset = d} = {HivePath(r)}

\* A plan was returned in which a dataset fell back for some month and had
\* more than one COMPLETE member before the target to choose from.
C3_Witness ==
    /\ plan_state = "planned"
    /\ \E m \in Months : \E d \in DatasetNames(results) :
          /\ ExactEmptyCopy(d, m)
          /\ Cardinality(CompleteBefore(d, m)) >= 2

\* -------------------------------------------- RegressionModelPredictor claims
MeanBelow(x) == SumSeq(cv_results) < x * Len(cv_results)

MeanAbove(x) == SumSeq(cv_results) > x * Len(cv_results)

NothingReadOrWritten ==
    /\ storage_calls = <<>>
    /\ \A m \in Months : output_partitions[m] = <<>>

\* C6: predict raises "too low" when the mean CV R2 is below min_r2_score,
\* "unusually high" when it is above max_r2_score, and no gate error when the
\* mean lies within the bounds, the bounds included; when the gate raises, no
\* partition has been read or written.
C6_QualityGate ==
    predict_state # "idle" =>
        /\ MeanBelow(min_r2_score) =>
               predict_state = "raised" /\ predict_error = "too low"
        /\ MeanAbove(max_r2_score) =>
               predict_state = "raised" /\ predict_error = "unusually high"
        /\ (~MeanBelow(min_r2_score) /\ ~MeanAbove(max_r2_score)) =>
               predict_state # "raised" /\ predict_error = "none"
        /\ predict_error # "none" => NothingReadOrWritten

\* The gate raised on a mean of two folds above the maximum.
C6_Witness ==
    /\ predict_state = "raised"
    /\ predict_error = "unusually high"
    /\ Len(cv_results) = 2

InProgress ==
    {m \in Months :
        /\ \E k \in 1..Len(storage_calls) : storage_calls[k] = <<"read", m>>
        /\ ~\E k \in 1..Len(storage_calls) : storage_calls[k] = <<"write", m>>}

\* C7: predict reads and writes the months one at a time in increasing order:
\* the storage calls are read 1, write 1, read 2, write 2, ..., so the output
\* of month i is written before the input of month i+1 is read, at most one
\* month is in progress, and a predict that returned has written every month.
C7_MonthsStrictlyInOrder ==
    /\ \A k \in 1..Len(storage_calls) :
          storage_calls[k] = IF k % 2 = 1 THEN <<"read", (k + 1) \div 2>>
                             ELSE <<"write", k \div 2>>
    /\ Cardinality(InProgress) <= 1
    /\ predict_state = "returned" => Len(storage_calls) = 2 * NumMonths

\* predict returned after reading and writing at least two months.
C7_Witness ==
    /\ predict_state = "returned"
    /\ Len(storage_calls) >= 4
    /\ storage_calls[3] = <<"read", 2>>

Written(m) == \E k \in 1..Len(storage_calls) : storage_calls[k] = <<"write", m>>

RowsOf(rows) == {rows[i] : i \in 1..Len(rows)}

RowKeys(rows) == {<<rows[i].grid_id, rows[i].date>> : i \in 1..Len(rows)}

\* The rows the rolling value of row r of month m may draw on: the written
\* rows of the month before (none for the first month) and of month m, of the
\* same grid cell, dated up to r.
Eligible(m, r) ==
    {q \in RowsOf(output_partitions[m])
           \cup (IF m = 1 THEN {} ELSE RowsOf(output_partitions[m - 1])) :
        q.grid_id = r.grid_id /\ q.date <= r.date}

MostRecent(m, r) ==
    {q \in Eligible(m, r) :
        Cardinality({p \in Eligible(m, r) : p.date > q.date}) < 7}

RECURSIVE SumImputed(_)
SumImputed(S) ==
    IF S = {} THEN 0
    ELSE LET q == CHOOSE q \in S : TRUE
         IN q.target_col__imputed + SumImputed(S \ {q})

\* C8: with include_stats, the rolling value written for a row is the mean of
\* the non-null imputed values of the up to 7 most recent rows of its grid
\* cell, taken from the previous month's result and the current month up to
\* that row (the current month only for the first month), and the partition
\* written holds exactly the rows of the current month's input.
C8_RollingMeanAcrossMonths ==
    include_stats =>
        \A m \in Months : Written(m) =>
            /\ Len(output_partitions[m]) = Len(input_partitions[m])
            /\ RowKeys(output_partitions[m]) = RowKeys(input_partitions[m])
            /\ \A r \in RowsOf(output_partitions[m]) :
                  LET valid == {q \in MostRecent(m, r) :
                                   q.target_col__imputed # Null}
                  IN r.target_col__imputed_r7d =
                         IF valid = {} THEN <<0, 0>>
                         ELSE <<SumImputed(valid), Cardinality(valid)>>

\* A second month was written in which some row's window holds rows of the
\* previous month and leaves the oldest eligible row out.
C8_Witness ==
    /\ include_stats
    /\ predict_state = "returned"
    /\ \E m \in Months \ {1} : \E r \in RowsOf(output_partitions[m]) :
          /\ Cardinality(Eligible(m, r)) > 7
          /\ \E q \in MostRecent(m, r) : q.date <= DateOf(m - 1, DaysPerMonth)
          /\ \E q \in MostRecent(m, r) : q.target_col__imputed_flag = 1
          /\ \E q \in MostRecent(m, r) : q.target_col__imputed_flag = 0

\* ------------------------------------------- SpatialImputationManager claims
SpatialWritten(m) == m \in swrites

Interpolated(m) == imputed_length[m] # Null

\* C9: a month's output partition is written only when the interpolator
\* returned as many rows as the month's input has; when the counts differ the
\* month's task fails with the length error and the month is not written, so
\* the run writes no partition whose row count differs from its input's.
C9_WritesOnlyEqualLength ==
    \A m \in Months :
        /\ SpatialWritten(m) =>
               /\ imputed_length[m] = scanned_rows[m]
               /\ imputed[m].exists /\ imputed[m].num_rows = scanned_rows[m]
        /\ (Interpolated(m) /\ imputed_length[m] # scanned_rows[m]) =>
               /\ ~SpatialWritten(m)
               /\ imputed[m] = imputed0[m]
               /\ sphase = "impute" =>
                      stask[m] = "failed" /\ stask_error[m].kind = "length"

\* In one run the interpolator returned a wrong count for one month, which
\* was not written, and the right count for another, which was.
C9_Witness ==
    \E m1 \in Months, m2 \in Months :
        /\ Interpolated(m1) /\ imputed_length[m1] # scanned_rows[m1]
        /\ sphase = "impute" /\ stask[m1] = "failed"
        /\ SpatialWritten(m2)

MissingFromScan == {m \in Months : scanned_rows[m] = 0}

\* C10: when a month of the temporal range is absent from the scanned
\* dataset, impute raises an error naming exactly the missing months, and it
\* does so before any skip check, interpolation or write.
C10_MissingMonthsRaiseFirst ==
    (sphase # "idle" /\ MissingFromScan # {}) =>
        /\ sphase = "raised"
        /\ serror.kind = "missing_months"
        /\ {serror.months[i] : i \in 1..Len(serror.months)} = MissingFromScan
        /\ Len(serror.months) = Cardinality(MissingFromScan)
        /\ swrites = {}
        /\ imputed = imputed0
        /\ \A m \in Months :
              /\ stask[m] = "none"
              /\ needs_upload[m] = "unchecked"
              /\ ~Interpolated(m)

\* impute raised for a missing month while another month, present and with
\* no output yet, would have needed imputing.
C10_Witness ==
    /\ sphase = "raised"
    /\ serror.kind = "missing_months"
    /\ \E m \in Months : scanned_rows[m] > 0 /\ ~imputed[m].exists

\* The output partition the month had when impute was called exists, has one
\* row per grid cell and day and holds every scanned column but month.
ImputedValidAtStart(m) ==
    /\ imputed0[m].exists
    /\ imputed0[m].num_rows = DaysInMonth(m) * GridCells
    /\ (ScannedColumns \ {"month"}) \subseteq imputed0[m].columns

\* C11: the interpolator is invoked and a partition written only for months
\* whose output was missing or invalid when the skip check ran; a month whose
\* output was valid is neither interpolated nor written and keeps its
\* partition.
C11_ImputesOnlyMonthsNeedingUpload ==
    \A m \in Months :
        /\ (Interpolated(m) \/ SpatialWritten(m)) =>
               ~ImputedValidAtStart(m) /\ needs_upload[m] = "yes"
        /\ ImputedValidAtStart(m) =>
               /\ ~Interpolated(m) /\ ~SpatialWritten(m)
               /\ imputed[m] = imputed0[m]
               /\ needs_upload[m] \in {"unchecked", "no"}
               /\ sphase \in {"impute", "validate"} => stask[m] = "none"

\* impute returned after skipping a month whose output was valid and writing
\* another whose output was not.
C11_Witness ==
    /\ sphase = "returned"
    /\ \E m1 \in Months, m2 \in Months :
          /\ ImputedValidAtStart(m1) /\ needs_upload[m1] = "no"
          /\ imputed0[m2].exists /\ ~ImputedValidAtStart(m2) /\ SpatialWritten(m2)

LengthMismatch(m) == Interpolated(m) /\ imputed_length[m] # scanned_rows[m]

\* C12: when the interpolator returned a different number of rows than its
\* input for some month, the call of impute ends by raising that month's
\* length-mismatch exception, and every sibling month handed to the pool has
\* run to completion.
C12_LengthMismatchReachesCaller ==
    (sphase \in {"returned", "raised"} /\ \E m \in Months : LengthMismatch(m)) =>
        /\ sphase = "raised"
        /\ serror.kind = "length"
        /\ \A k \in Months : needs_upload[k] = "yes" => Interpolated(k)

\* --------------------------------------------------------- skip check claims
\* The output partition the month had when recombine was called exists and
\* fails _validate_combined.
RecombinedInvalidAtStart(m) ==
    DoesDatasetExist(storage0, <<OutStage, m>>) /\ ~ValidAt(storage0, m)

ImputedInvalidAtStart(m) == imputed0[m].exists /\ ~ImputedValidAtStart(m)

\* C13: a validation failure found on an existing output partition by the
\* skip check of recombine or of impute makes the check answer that the month
\* needs recomputation; no task of the skip check fails and nothing is raised
\* to the caller while the skip check runs.
C13_SkipCheckCatchesValidationFailure ==
    /\ \A m \in Months :
          (RecombinedInvalidAtStart(m) /\ rcall >= 1 /\ ~force_recombine) =>
              /\ needs[m] \in {"unchecked", "yes"}
              /\ rphase # "filter" => needs[m] = "yes"
    /\ rphase = "filter" =>
          /\ rerror = NoError
          /\ \A m \in Months : task[m] # "failed" /\ task_error[m] = NoError
    /\ \A m \in Months :
          ImputedInvalidAtStart(m) =>
              /\ needs_upload[m] \in {"unchecked", "yes"}
              /\ sphase \in {"impute", "validate", "returned"} =>
                     needs_upload[m] = "yes"
    /\ sphase = "identify" =>
          /\ serror = NoSpatialError
          /\ \A m \in Months :
                stask[m] # "failed" /\ stask_error[m] = NoSpatialError

\* impute returned after its skip check found one output with a wrong row
\* count and another with a column missing, and both were imputed again.
C13_Witness ==
    /\ sphase = "returned"
    /\ \E m1 \in Months, m2 \in Months :
          /\ imputed0[m1].exists /\ imputed0[m1].num_rows # ExpectedRows(m1)
          /\ imputed0[m2].exists /\ imputed0[m2].num_rows = ExpectedRows(m2)
          /\ ~ImputedValidAtStart(m2)
          /\ SpatialWritten(m1) /\ SpatialWritten(m2)

\* ------------------------------------------------ Recombiner claims, continued
\* The month's output partition in st exists, has as many rows as the first
\* input and holds every column of every input.
OutputSound(st, m) ==
    /\ st[<<OutStage, m>>].exists
    /\ Cardinality(st[<<OutStage, m>>].rows) = Cardinality(st[<<Stages[1], m>>].rows)
    /\ \A i \in 1..Len(Stages) :
          st[<<Stages[i], m>>].columns \subseteq st[<<OutStage, m>>].columns

ValidationRaised ==
    rphase = "raised" /\ rerror.kind \in {"row_count", "missing_columns"}

FinalValidationOutcome ==
    /\ rphase = "returned" => \A m \in writes : OutputSound(storage, m)
    /\ ValidationRaised =>
          /\ rerror.month \in writes
          /\ ~OutputSound(storage, rerror.month)
          /\ \A m \in writes :
                storage[<<OutStage, m>>] =
                    CombineAll(ReadDfsToMerge(storage, m), overwrite_columns).df
    /\ \A m \in Months :
          (rcall = 2 /\ ~force_recombine /\ needs[m] # "unchecked") =>
              (needs[m] = "yes" <=> ~OutputSound(storage0, m))

\* C14: when the final validation finds a month that recombine just wrote
\* invalid, recombine raises, the partition stays in storage as written and
\* nothing is written once the validation has started; the skip check of the
\* next call selects exactly the months whose output is missing or invalid.
C14_FailedValidationIsFatalNotRetried ==
    /\ []FinalValidationOutcome
    /\ [][rphase = "validate" => (storage' = storage /\ writes' = writes)]_vars

\* The first call wrote a month, failed its final validation and raised; the
\* second call's skip check selected that month and passed over a valid one.
C14_Witness ==
    /\ rcall = 2 /\ ~force_recombine /\ first.outcome = "raised"
    /\ \E m1 \in Months, m2 \in Months :
          /\ m1 \in first.writes /\ ~OutputSound(storage0, m1) /\ needs[m1] = "yes"
          /\ OutputSound(storage0, m2) /\ needs[m2] = "no"

\* ------------------------------------------- CombinePlanner claims, continued
ExactEmptyStrict(d, m) ==
    \E r \in MembersOf(d) :
        /\ r.ord = TargetOrd(d, m)
        /\ ~r.data_available
        /\ r.missing_data_heuristic # "COPY_LATEST_AVAILABLE_BEFORE"

\* C15: when the exact-match member of a dataset for some month is EMPTY and
\* its heuristic is not COPY_LATEST_AVAILABLE_BEFORE, plan raises and returns
\* no plans, whether or not the dataset has earlier COMPLETE members.
C15_StrictEmptyFails ==
    (plan_state # "idle"
        /\ \E m \in Months : \E d \in DatasetNames(results) : ExactEmptyStrict(d, m)) =>
        plan_state = "failed" /\ plans = NoPlans /\ plan_error # "none"

\* plan raised for a strict EMPTY exact match although the dataset had an
\* earlier COMPLETE member.
C15_Witness ==
    /\ plan_state = "failed"
    /\ plan_error = "no_matching_hive_path"
    /\ \E m \in Months : \E d \in DatasetNames(results) :
          ExactEmptyStrict(d, m) /\ CompleteBefore(d, m) # {}

\* The discriminator key the members of a dataset agree on, "none" when they
\* agree on none.
AgreedKey(d) ==
    IF \A r \in MembersOf(d) : r.meta["type"] = Static THEN "type"
    ELSE IF \A r \in MembersOf(d) : r.meta["month"] # None THEN "month"
    ELSE IF \A r \in MembersOf(d) : r.meta["year"] # None THEN "year"
    ELSE "none"

FailsAlone(d) ==
    \A e \in DatasetNames(results) \ {d} : BestMatches(results, 1)[e].ok

\* C16: the key of a dataset group is type when every member is static, else
\* month when every member has a month key, else year when every member has
\* a year key; a returned plan selects each dataset's partition by that key
\* (the partition whose key has the month's value unless that partition is
\* EMPTY); a group with no agreed key makes plan raise the configuration
\* error and return no plan.
C16_DatasetKeyPriority ==
    plan_state # "idle" =>
        \A d \in DatasetNames(results) :
            /\ DatasetKey(GroupOf(results, d)) =
                   (IF AgreedKey(d) = "none" THEN "error" ELSE AgreedKey(d))
            /\ AgreedKey(d) = "none" =>
                   /\ plan_state = "failed"
                   /\ plans = NoPlans
                   /\ FailsAlone(d) => plan_error = "no_dataset_key"
            /\ plan_state = "planned" =>
                   \A m \in Months : \A p \in plans[m].paths :
                       p.dataset = d =>
                           LET value == ExtractValue(AgreedKey(d), m)
                               exact == {r \in MembersOf(d) :
                                            r.meta[AgreedKey(d)] = value}
                           IN /\ exact # {}
                              /\ \/ p.meta[AgreedKey(d)] = value
                                 \/ \A r \in exact : ~r.data_available

\* plan raised the configuration error for a dataset that mixes a partition
\* keyed by month with one keyed by year.
C16_Witness ==
    /\ plan_state = "failed"
    /\ plan_error = "no_dataset_key"
    /\ \E d \in DatasetNames(results) :
          /\ AgreedKey(d) = "none"
          /\ \E r1 \in MembersOf(d), r2 \in MembersOf(d) :
                /\ r1.meta["month"] # None /\ r1.meta["year"] = None
                /\ r2.meta["year"] # None /\ r2.meta["month"] = None

\* The dataset names among the results handed to plan.
NamedDatasets == {results[i].dataset : i \in 1..Len(results)}

\* C17: a plan that is returned has one CombinePlan for every month of the
\* range, and each holds, for every dataset name among the results, exactly
\* one path, the path of a member of that dataset, and no other path; for no
\* results plan returns, for every month, a plan with no paths and no
\* expected columns.
C17_OnePlanPerMonthOnePathPerDataset ==
    /\ plan_state = "planned" =>
           /\ DOMAIN plans = Months
           /\ \A m \in Months :
                 /\ \A d \in NamedDatasets :
                        \E r \in MembersOf(d) :
                            {p \in plans[m].paths : p.dataset = d} = {HivePath(r)}
                 /\ \A p \in plans[m].paths : p.dataset \in NamedDatasets
                 /\ Cardinality(plans[m].paths) = Cardinality(NamedDatasets)
    /\ (results = <<>> /\ plan_state # "idle") =>
           /\ plan_state = "planned"
           /\ \A m \in Months :
                  plans[m].paths = {} /\ plans[m].expected_columns = {}

\* A plan was returned for three datasets, one of them with several members.
C17_Witness ==
    /\ plan_state = "planned"
    /\ Cardinality(NamedDatasets) = 3
    /\ \E d \in NamedDatasets : Cardinality(MembersOf(d)) >= 2

\* The same results supplied in another order: rotated, and rotated then
\* reversed.
Rotated(rs, k) == [i \in 1..Len(rs) |-> rs[((i + k - 1) % Len(rs)) + 1]]

Reversed(rs) == [i \in 1..Len(rs) |-> rs[Len(rs) + 1 - i]]

Reorderings(rs) ==
    {Rotated(rs, k) : k \in 0..(Len(rs) - 1)}
    \cup {Reversed(Rotated(rs, k)) : k \in 0..(Len(rs) - 1)}

OrderIndependent ==
    /\ plan_state = "planned" =>
           \A rs \in Reorderings(results) : PlanSucceeds(rs) /\ Plan(rs) = plans
    /\ plan_state = "failed" =>
           \A rs \in Reorderings(results) : ~PlanSucceeds(rs)

\* C18: the outcome of plan is a function of the set of results and of the
\* range: the same results supplied in another order give equal plans (and
\* fail when plan failed); plan leaves its argument and the stored
\* partitions as they were.
C18_PlanIsPureAndOrderIndependent ==
    /\ []OrderIndependent
    /\ [][plan_state = "idle" =>
             (results' = results /\ storage' = storage /\ imputed' = imputed
              /\ output_partitions' = output_partitions)]_vars

\* A plan was returned for results of three datasets whose reversal is
\* another sequence, with a fallback to an earlier partition in it.
C18_Witness ==
    /\ plan_state = "planned"
    /\ Cardinality(NamedDatasets) = 3
    /\ Reversed(results) # results
    /\ \E m \in Months : \E d \in NamedDatasets : ExactEmptyCopy(d, m)

\* ------------------------------------------ Recombiner claims, forced runs
\* The exception recombine raised came out of _process_in_parallel.
ProcessingRaised ==
    rphase = "raised" /\ rerror.kind \notin {"none", "row_count", "missing_columns"}

\* C19 as stated: with force_recombine=true a call of recombine that ended
\* has written the output partition of every month.
C19_AsStated ==
    (force_recombine /\ Ended) => writes = Months

\* C19: with force_recombine=true no skip check runs and every month is
\* handed to the processing pool; unless processing a month raises, every
\* month is written, the months whose output was valid included, and the
\* final validation is then submitted for every month; recombine returns
\* only when every month validated.
C19_ForcedRecombineRewritesEveryMonth ==
    (force_recombine /\ rphase # "idle") =>
        /\ \A m \in Months : needs[m] = "unchecked"
        /\ {filtered_months[i] : i \in 1..Len(filtered_months)} = Months
        /\ (rphase \in {"validate", "returned"} \/ ValidationRaised) =>
               /\ writes = Months
               /\ {submitted[i] : i \in 1..Len(submitted)} = Months
        /\ (rphase = "raised" /\ writes # Months) => ProcessingRaised
        /\ rphase = "returned" =>
               \A m \in Months :
                   task[m] = "done" /\ ValidateCombined(storage, m) = NoError

\* A forced call returned after writing a month whose output was valid when
\* the call started.
C19_Witness ==
    /\ force_recombine
    /\ rphase = "returned"
    /\ \E m \in Months : ValidAt(storage0, m) /\ m \in writes

\* ------------------------------------- CreaMeasurementsApiDataSource claims
\* C21: whatever the interleaving of the calls, the remote fetch of a method
\* of an instance succeeds at most once and is never begun after it has
\* succeeded; every call that returns gives the cached object of its instance
\* and method; the cache of another instance (or method) holds another
\* object, obtained by a fetch of its own.
C21_FetchedOncePerInstance ==
    \A x \in Targets :
        /\ dfetches[x] <= 1
        /\ dlate[x] = 0
        /\ dcache[x] # 0 <=> dfetches[x] = 1
        /\ \A t \in Callers :
               (dpc[t] = "returned" /\ dtarget[t] = x) =>
                   (dret[t] # 0 /\ dret[t] = dcache[x])
        /\ \A y \in Targets \ {x} : dcache[x] # 0 => dcache[y] # dcache[x]

\* Both threads made two calls and returned from the same method of the same
\* instance; the other instance has fetched the same method for itself.
C21_Witness ==
    /\ \A t \in Callers : dpc[t] = "returned" /\ dcalls[t] = MaxCalls
    /\ dtarget[1] = dtarget[2]
    /\ \E m \in Methods : dcache[<<1, m>>] # 0 /\ dcache[<<2, m>>] # 0

\* ----------------------------------------------------- TemporalConfig claims
\* The calendar months from that of start_date to that of end_date.
MonthsThrough == IntRange(start_date.m, end_date.m)

\* C22: months and month_ids list every calendar month from the month of
\* start_date through the month of end_date, in increasing order and once
\* each, whatever the days of the month of the two dates; years lists every
\* year from that of start_date through that of end_date.
C22_MonthsInclusive ==
    /\ "months" \in tc_derived =>
           [k \in 1..Len(tc_months) |-> tc_months[k].m] = MonthsThrough
    /\ "month_ids" \in tc_derived =>
           tc_month_ids = [k \in 1..Len(MonthsThrough) |-> MonthFormat(MonthsThrough[k])]
    /\ "years" \in tc_derived =>
           tc_years = IntRange(CalYear(start_date.m), CalYear(end_date.m))

\* ------------------------------------------ Recombiner claims, validation
RowsAsFirstInput(st, m) ==
    Cardinality(st[<<OutStage, m>>].rows) = Cardinality(st[<<Stages[1], m>>].rows)

MissingInOutput(st, m) ==
    UNION {st[<<Stages[i], m>>].columns : i \in 1..Len(Stages)}
        \ st[<<OutStage, m>>].columns

\* The outcome the claim gives _validate_combined for a month.
ExpectedValidation(st, m) ==
    IF ~RowsAsFirstInput(st, m) THEN "row_count"
    ELSE IF MissingInOutput(st, m) # {} THEN "missing_columns"
    ELSE "none"

\* The storage with a copy of the month's i-th input for its output (the
\* inputs never change, so these are looked at before recombine is called).
WithCopiedOutput(i, m) ==
    WriteToDestination(storage, storage[<<Stages[i], m>>], <<OutStage, m>>)

ValidationAsClaimed ==
    \A m \in Months :
        /\ \A st \in {storage} \cup (IF rphase = "idle"
                                     THEN {WithCopiedOutput(i, m) : i \in 1..Len(Stages)}
                                     ELSE {}) :
               DoesDatasetExist(st, <<OutStage, m>>) =>
                   LET found == ValidateCombined(st, m)
                   IN /\ found.kind = ExpectedValidation(st, m)
                      /\ found.kind = "missing_columns" =>
                             found.columns = MissingInOutput(st, m)
        /\ (rphase = "validate" /\ task[m] \in {"done", "failed"}) =>
               /\ task[m] = "done" <=> ExpectedValidation(storage, m) = "none"
               /\ task_error[m].kind = ExpectedValidation(storage, m)
        /\ (rphase = "filter" /\ needs[m] # "unchecked"
                /\ DoesDatasetExist(storage, <<OutStage, m>>)) =>
               (needs[m] = "no" <=> ExpectedValidation(storage, m) = "none")

\* C23: _validate_combined succeeds exactly when the output's row count is
\* that of the first input and its columns include every column of every
\* input; otherwise it raises, for the row count first and for the missing
\* columns otherwise; while the skip check and the final validation run, no
\* partition is read in full and none is written.
C23_ValidateCombinedExact ==
    /\ []ValidationAsClaimed
    /\ [][(rphase \in {"filter", "validate"}) => UNCHANGED <<storage, full_reads, writes>>]_vars

\* The final validation found a freshly written month with a row too many,
\* and passed another month.
C23_Witness ==
    /\ rphase = "validate"
    /\ \E m1 \in Months, m2 \in Months :
          /\ task[m1] = "failed" /\ task_error[m1].kind = "row_count"
          /\ task[m2] = "done" /\ m2 \in writes

\* ------------------------------ RegressionModelPredictor claims, continued
\* The full result of month k: _add_imputed_details_to_df on the month's
\* input and the full result of the month before.
RECURSIVE FullResult(_)
FullResult(k) ==
    AddImputedDetailsToDf(AverageCvScore(cv_results),
                          input_partitions[PredictMonths[k]],
                          IF k = 1 THEN NoPrevious
                          ELSE [is_none |-> FALSE, rows |-> FullResult(k - 1)],
                          include_stats)

ColumnsOf(rows) == UNION {DOMAIN rows[i] : i \in 1..Len(rows)}

ImputationBegun == \E m \in Months : imputed_length[m] # Null \/ m \in swrites

ValidationBegun ==
    sphase = "validate" /\ \E m \in Months : stask[m] \in {"running", "done", "failed"}

ToUpload == {months_to_upload[i] : i \in 1..Len(months_to_upload)}

PhasesInSequence ==
    /\ ImputationBegun => \A m \in Months : needs_upload[m] # "unchecked"
    /\ sphase \in {"impute", "validate", "returned"} =>
           ToUpload = {m \in Months : needs_upload[m] = "yes"}
    /\ (ValidationBegun \/ sphase = "returned") =>
           \A m \in ToUpload : m \in swrites \/ LengthMismatch(m)
    /\ swrites \subseteq ToUpload
    /\ sphase = "validate" => {ssubmitted[i] : i \in 1..Len(ssubmitted)} = ToUpload

\* C25: impute runs the skip check of every month, then the imputation of
\* the months needing upload, then their validation: no imputation task
\* starts before every skip check has answered, no validation task before
\* every imputation task has ended, and nothing is written once the
\* validation has begun.
C25_PhasesStrictlyInSequence ==
    /\ []PhasesInSequence
    /\ [][(sphase = "validate") => UNCHANGED <<imputed, swrites, needs_upload>>]_vars
    /\ [][(sphase = "impute") => UNCHANGED needs_upload]_vars

\* The validation of two months has begun after both were written.
C25_Witness ==
    /\ ValidationBegun
    /\ Cardinality(ToUpload) >= 2
    /\ ToUpload \subseteq swrites

\* ------------------------------------ Recombiner claims, processing pool
Submitted == {submitted[i] : i \in 1..Len(submitted)}

\* The first month, in the order the results are drained, whose task failed.
FirstFailed ==
    submitted[CHOOSE i \in 1..Len(submitted) :
                  /\ task[submitted[i]] = "failed"
                  /\ \A j \in 1..(i - 1) : task[submitted[j]] # "failed"]

\* C26 as stated: when a month's task fails, every other month handed to the
\* processing pool is still processed and none is cancelled.
C26_AsStated ==
    ProcessingRaised => \A m \in Submitted : task[m] \in {"done", "failed"}

ProcessingFailureOutcome ==
    ProcessingRaised =>
        /\ \A m \in Submitted : task[m] \in {"done", "failed", "cancelled"}
        /\ rerror = task_error[FirstFailed]
        /\ \A m \in Submitted :
               /\ task[m] = "done" => m \in writes
               /\ task[m] # "done" =>
                      /\ m \notin writes
                      /\ storage[<<OutStage, m>>] = storage0[<<OutStage, m>>]

\* C26: when a month's task of the processing pool fails, the tasks already
\* running continue to their end, the months still queued when the failure
\* is collected are cancelled and never processed, and recombine raises the
\* exception of the first failed month in submission order.
C26_RunningContinueQueuedCancelled ==
    /\ []ProcessingFailureOutcome
    /\ [][\A m \in Months :
              /\ task[m] = "running" => task'[m] \in {"running", "done", "failed"}
              /\ task'[m] = "cancelled" => task[m] \in {"pending", "cancelled"}]_vars

\* recombine raised a month's failure with a later month cancelled in the
\* queue.
C26_Witness ==
    /\ ProcessingRaised
    /\ \E m \in Submitted : task[m] = "cancelled" /\ FirstFailed < m

\* -------------------------------------- Recombiner claims, normal return
\* C27: when recombine with force_recombine=false returns normally, every
\* month of the range, skipped or written, has an output partition that
\* passes _validate_combined against the inputs.
C27_ReturnImpliesAllMonthsValid ==
    (~force_recombine /\ rphase = "returned") =>
        \A m \in Months :
            /\ ValidAt(storage, m)
            /\ RowsAsFirstInput(storage, m)
            /\ MissingInOutput(storage, m) = {}
            /\ m \in writes <=> needs[m] = "yes"

\* recombine returned after skipping a valid month and writing another.
C27_Witness ==
    /\ ~force_recombine /\ rphase = "returned" /\ rcall = 1
    /\ \E m1 \in Months, m2 \in Months :
          /\ needs[m1] = "no" /\ m1 \notin writes
          /\ needs[m2] = "yes" /\ m2 \in writes

\* ------------------------------- CombinePlanner claims, missing exact match
\* No member of the dataset is the partition the month asks for, although
\* the members agree on a key.
NoExactMember(d, m) ==
    /\ AgreedKey(d) # "none"
    /\ \A r \in MembersOf(d) : r.ord # TargetOrd(d, m)

\* C28: when no member of a dataset has the key value of a month, plan raises
\* and returns no plan, whatever the heuristics of the members and whether
\* or not an earlier COMPLETE member exists; the exception is the
\* StopIteration of the search when no other dataset fails first.
C28_NoExactMatchFails ==
    (plan_state # "idle"
        /\ \E m \in Months : \E d \in DatasetNames(results) : NoExactMember(d, m)) =>
        /\ plan_state = "failed"
        /\ plans = NoPlans
        /\ \A d \in DatasetNames(results) :
               (NoExactMember(d, 1) /\ FailsAlone(d)) => plan_error = "StopIteration"

\* plan raised StopIteration for a dataset with an EMPTY member of the copy
\* heuristic and a COMPLETE member before the month that has no partition.
C28_Witness ==
    /\ plan_state = "failed"
    /\ plan_error = "StopIteration"
    /\ \E m \in Months : \E d \in DatasetNames(results) :
          /\ NoExactMember(d, m)
          /\ CompleteBefore(d, m) # {}
          /\ \E r \in MembersOf(d) :
                r.missing_data_heuristic = "COPY_LATEST_AVAILABLE_BEFORE"

\* ------------------------------------------------ ImputationController claims
\* The first n elements of a sequence.
Prefix(s, n) == SubSeq(s, 1, n)

\* The sub-artifacts of the configured models, in configuration order.
SubArtifactsOf(names) ==
    [i \in 1..Len(names) |-> [stage |-> "imputed", sub |-> names[i]]]

\* C29: impute calls the recombiner at most once, exactly once when it
\* returns, and only after predict has completed for every configured model;
\* predict is called for the models one at a time in configuration order;
\* the stages are the input artifact followed by each model's sub-artifact
\* in that order; when predict raises for a model no later model is
\* processed and recombine is never called.
C29_RecombineOnceAfterAllPredicted ==
    /\ recombine_calls \in {0, 1}
    /\ predict_calls = Prefix(model_refs, Len(predict_calls))
    /\ Len(predict_calls) - Len(to_add_stage_names) \in {0, 1}
    /\ to_add_stage_names = SubArtifactsOf(Prefix(model_refs, Len(to_add_stage_names)))
    /\ cpc = "returned" => recombine_calls = 1
    /\ recombine_calls = 1 =>
          /\ predict_calls = model_refs
          /\ Len(to_add_stage_names) = Len(model_refs)
          /\ recombine_stages =
                 <<[stage |-> "generated", sub |-> "none"]>> \o SubArtifactsOf(model_refs)
    /\ craised = "predict" =>
          /\ cpc = "raised"
          /\ recombine_calls = 0
          /\ Len(predict_calls) = Len(to_add_stage_names) + 1
    /\ cpc = "raised" => craised # "none"

\* impute returned after predicting three models and recombining once.
C29_Witness ==
    /\ cpc = "returned"
    /\ Len(model_refs) = 3
    /\ predict_calls = model_refs
    /\ recombine_calls = 1
    /\ Len(recombine_stages) = 4

\* predict raised for the second of three models.
C29_WitnessPredictRaises ==
    /\ craised = "predict"
    /\ Len(model_refs) = 3
    /\ Len(predict_calls) = 2

\* -------------------------------------- HarmonySubsetterDataRetriever claims
\* The last response says the job is still running: status 'running' with
\* progress below 100.
StillRunning == job_status_response.status = "running" /\ job_status_response.progress < 100

\* The last response says the job succeeded: status 'successful' with
\* progress 100.
Succeeded == job_status_response.status = "successful" /\ job_status_response.progress = 100

\* The links of the last response whose rel is 'data' or absent.
RECURSIVE DataLinksFrom(_)
DataLinksFrom(n) ==
    IF n > Len(job_status_response.links) THEN <<>>
    ELSE LET link == job_status_response.links[n]
         IN (IF link.rel \in {"data", "absent"} THEN <<link>> ELSE <<>>) \o DataLinksFrom(n + 1)

AwaitOutcome ==
    /\ hpc \in {"returned", "raised"} => ~StillRunning
    /\ hpc = "returned" => (Succeeded /\ hresult = DataLinksFrom(1) /\ herror = "none")
    /\ hpc = "raised" => (~Succeeded /\ herror = "NedMissingDataError" /\ hresult = <<>>)

\* C30: _await_download_url_results does not leave the loop while the last
\* response is 'running' with progress < 100; once the response is anything
\* else it asks no more and returns the data links exactly when the response
\* is 'successful' with progress 100 and raises NedMissingDataError for every
\* other response.
C30_PollsWhileRunningThenReturnsOrRaises ==
    /\ []AwaitOutcome
    /\ [][(hpc = "polling" /\ StillRunning) => hpc' = "polling"]_vars
    /\ [][(hpc = "polling" /\ ~StillRunning) => (job_status_response' = job_status_response /\ hpolls' = hpolls)]_vars
    /\ [][(hpc = "polling" /\ ~StillRunning /\ hpc' # "polling") => hpc' = (IF Succeeded THEN "returned" ELSE "raised")]_vars

\* The third response was the success of a job with a link that is not data.
C30_Witness ==
    /\ hpc = "returned"
    /\ hpolls = 3
    /\ Len(hresult) = 2
    /\ Len(job_status_response.links) = 3

\* The wait ended in NedMissingDataError on 'running' with progress 100.
C30_WitnessRunningAtHundred ==
    /\ hpc = "raised"
    /\ job_status_response.status = "running"
    /\ job_status_response.progress = 100

\* The wait ended in NedMissingDataError on 'successful' below 100.
C30_WitnessSuccessfulBelowHundred ==
    /\ hpc = "raised"
    /\ job_status_response.status = "successful"
    /\ job_status_response.progress < 100

====
